---- MODULE Spec2Model ----
(***************************************************************************)
(* A model of the builder tool: Rule.execute (src/src/builder/rule.py),    *)
(* Project.run, Project.select_rules and the namespace merge of            *)
(* Project.get_all_rules / get_all_vars (src/src/builder/project.py).      *)
(*                                                                         *)
(* Python dicts are insertion ordered: a dict is modelled as a sequence of *)
(* records [key, val] with pairwise different keys.  Names that the code   *)
(* takes apart or matches (rule names, aliases, regular expressions) are   *)
(* sequences of one-character strings; file paths, which the code only     *)
(* compares and hands to the operating system, are atomic strings.         *)
(***************************************************************************)
EXTENDS Integers, Sequences, FiniteSets, TLC

\* ------------------------------------------------------------------ bounds
\* Largest modification time of a file.
MaxTime == 2
\* Largest number of commands a rule declares.
MaxCmds == 2
\* Largest number of rules in the mapping handed to Project.run (SpecRun).
MaxRules == 3
\* Largest number of projects a project tree imports, at all depths.
MaxImports == 2
\* Largest number of variables a configuration declares (SpecBuild).
MaxVars == 2
\* Passes of the fixed-point loop of variable resolution that are followed, and
\* $(...) commands of one resolution that are followed: a resolution that
\* needs more is still running when the model leaves it.
MaxPasses == 5
MaxSpawn == 2
\* Largest number of whitespace-delimited tokens of a raw command (SpecCommand).
MaxTokens == 3
\* Largest number of lines a spawned process writes, and the number of lines
\* a pipe holds before a write to it blocks (SpecProcess).
MaxWrites == 3
PipeCap == 2
\* Largest number of lines an interactive session dispatches (SpecShell).
MaxLines == 2

\* ----------------------------------------------------------------- helpers
Range(s) == {s[i] : i \in 1..Len(s)}

MaxOf(S) == CHOOSE x \in S : \A y \in S : x >= y

RECURSIVE Flatten(_)
\* Concatenation of a sequence of sequences (list.extend / list.append).
Flatten(ss) == IF ss = <<>> THEN <<>> ELSE Head(ss) \o Flatten(Tail(ss))

\* ------------------------------------------------------------- file system
\* The paths the rules speak about.  FileOrder is the order in which the
\* host lists them (glob's result order).
FileOrder == <<"a.c", "b.c", "out">>
Files == Range(FileOrder)
Times == 0..MaxTime

NoFile == [exists |-> FALSE, mtime |-> 0]
FileStates == {NoFile} \cup {[exists |-> TRUE, mtime |-> t] : t \in Times}

\* os.path.exists(f) and os.path.getmtime(f) on file system fsys.
Exists(fsys, f) == fsys[f].exists
GetMtime(fsys, f) == fsys[f].mtime

\* What a process (a command of a rule, or anything else on the host) may do
\* to the file system: nothing, write a file (any timestamp: touch -d), or
\* delete a file.
Effects ==
    {[op |-> "none", file |-> "a.c", mtime |-> 0]}
    \cup {[op |-> "write", file |-> f, mtime |-> t] : f \in Files, t \in Times}
    \cup {[op |-> "delete", file |-> f, mtime |-> 0] : f \in Files}

ApplyEffect(fsys, e) ==
    CASE e.op = "none" -> fsys
      [] e.op = "write" -> [fsys EXCEPT ![e.file] = [exists |-> TRUE, mtime |-> e.mtime]]
      [] e.op = "delete" -> [fsys EXCEPT ![e.file] = NoFile]

\* Directories.  ProjectDir is the directory of the configuration file.
ProjectDir == "/proj"
Dirs == {"/proj", "/proj/sub"}
NoDir == "<none>"

\* -------------------------------------------------------- rule construction
\* is_pattern: the string contains '*', '?' or '['.  Paths are atomic here, so
\* the paths with a wildcard are listed.
Patterns == {"*.c"}
is_pattern(s) == s \in Patterns

\* glob.glob(item): the existing files the pattern matches, in host order.
GlobMatches(p, f) == p = "*.c" /\ f \in {"a.c", "b.c"}
Glob(fsys, p) == SelectSeq(FileOrder, LAMBDA f : GlobMatches(p, f) /\ Exists(fsys, f))

\* Rule.__expand_files: a pattern becomes its matches, a literal path is kept
\* whether or not it exists.
expand_files(fsys, items) ==
    Flatten([i \in 1..Len(items) |->
        IF is_pattern(items[i]) THEN Glob(fsys, items[i]) ELSE <<items[i]>>])

\* The commands of a rule: command strings, here "c1", "c2", ...
CommandNames == [i \in 1..(MaxCmds + 1) |-> <<"c", i>>]
CommandLists == {SubSeq(CommandNames, 1, n) : n \in 0..MaxCmds}

\* The per-rule blocks of the configuration file (the keys Rule.__init__ reads,
\* and 'working-directory', which the configuration format declares).
RequiredChoices == {<<>>, <<"a.c">>, <<"*.c">>, <<"a.c", "b.c">>}
ExpectedChoices == {<<>>, <<"out">>, <<"out", "b.c">>, <<"*.c">>}
WorkdirChoices == {NoDir, "/proj/sub"}
RuleConfigs ==
    [tags : {<<>>}, required_files : RequiredChoices, expected_files : ExpectedChoices,
     commands : CommandLists, working_directory : WorkdirChoices]

\* Rule.__init__: the lists are expanded against the file system of that
\* moment.  id stands for the identity of the new object: two Rule objects
\* with equal fields are still two rules.
NewRule(fsys, id, name, config) ==
    [id |-> id,
     name |-> name,
     tags |-> config.tags,
     required_files |-> expand_files(fsys, config.required_files),
     expected_files |-> expand_files(fsys, config.expected_files),
     commands |-> config.commands]

RuleNames == [i \in 1..(MaxRules + 1) |-> <<"r", i>>]

\* ---------------------------------------------------------- rule execution
\* Rule.__check_required_files: no required file is missing.
check_required_files(fsys, rule) ==
    \A i \in 1..Len(rule.required_files) : Exists(fsys, rule.required_files[i])

\* Rule.__check_expected_files: no expected file is missing.
check_expected_files_any(fsys, rule) ==
    \E i \in 1..Len(rule.expected_files) : Exists(fsys, rule.expected_files[i])

check_expected_files(fsys, rule) ==
    \A i \in 1..Len(rule.expected_files) : Exists(fsys, rule.expected_files[i])

\* max(os.path.getmtime(f) for f in files if os.path.exists(f)): max() of an
\* empty sequence raises ValueError.
get_last_edited_time(fsys, files) ==
    LET ts == {GetMtime(fsys, files[i]) : i \in {j \in 1..Len(files) : Exists(fsys, files[j])}}
    IN  IF ts = {} THEN [raised |-> TRUE, val |-> 0]
        ELSE [raised |-> FALSE, val |-> MaxOf(ts)]

\* The comparison of __must_be_rerun: last_required > last_expected.
NewerThanOrEqual(a, b) == a >= b
NewerThan(a, b) == a > b

must_be_rerun_without_empty_test(fsys, rule) ==
    IF ~(\A i \in 1..Len(rule.expected_files) : Exists(fsys, rule.expected_files[i]))
    THEN "stale"
    ELSE LET last_required == get_last_edited_time(fsys, rule.required_files)
             last_expected == get_last_edited_time(fsys, rule.expected_files)
         IN  IF last_required.raised \/ last_expected.raised THEN "ValueError"
             ELSE IF NewerThan(last_required.val, last_expected.val) THEN "stale"
             ELSE "fresh"

\* Rule.__must_be_rerun: "stale", "fresh", or "ValueError" when max() raises.
must_be_rerun(fsys, rule) ==
    IF rule.expected_files = <<>>
       \/ ~(\A i \in 1..Len(rule.expected_files) : Exists(fsys, rule.expected_files[i]))
    THEN "stale"
    ELSE LET last_required == get_last_edited_time(fsys, rule.required_files)
             last_expected == get_last_edited_time(fsys, rule.expected_files)
         IN  IF last_required.raised \/ last_expected.raised THEN "ValueError"
             ELSE IF NewerThan(last_required.val, last_expected.val) THEN "stale"
             ELSE "fresh"

\* The part of Rule.execute before the first command, and what it does next:
\* raise ("MissingRequiredFiles", "ValueError"), return ("Skip") or "run".
ExecuteEntryForceFirst(fsys, rule, force_) ==
    IF force_ THEN "run"
    ELSE IF ~check_required_files(fsys, rule) THEN "MissingRequiredFiles"
    ELSE LET m == must_be_rerun(fsys, rule)
         IN  IF m = "ValueError" THEN "ValueError"
             ELSE IF m = "fresh" THEN "Skip"
             ELSE "run"

ExecuteEntry(fsys, rule, force_) ==
    IF ~check_required_files(fsys, rule) THEN "MissingRequiredFiles"
    ELSE IF force_ THEN "run"
    ELSE LET m == must_be_rerun(fsys, rule)
         IN  IF m = "ValueError" THEN "ValueError"
             ELSE IF m = "fresh" THEN "Skip"
             ELSE "run"

\* sp.run(cmd, check=True): CalledProcessError iff the exit status is not 0.
CommandFailsNever(ok) == FALSE
CommandFails(ok) == ~ok

\* ------------------------------------------------------------------ dicts
\* A dict: a sequence of [key, val] with pairwise different keys, in
\* insertion order.
DictKeys(d) == {d[i].key : i \in 1..Len(d)}
DictHas(d, k) == k \in DictKeys(d)
DictGet(d, k) == d[CHOOSE i \in 1..Len(d) : d[i].key = k].val

\* d[k] = v: a key that is there keeps its place.
DictSet(d, k, v) ==
    IF DictHas(d, k)
    THEN [i \in 1..Len(d) |-> IF d[i].key = k THEN [key |-> k, val |-> v] ELSE d[i]]
    ELSE Append(d, [key |-> k, val |-> v])

RECURSIVE DictUpdate(_, _)
\* d.update(e)
DictUpdate(d, e) ==
    IF e = <<>> THEN d
    ELSE DictUpdate(DictSet(d, Head(e).key, Head(e).val), Tail(e))

\* ---------------------------------------------------------------- projects
\* Names are sequences of characters.
Dot == "."
Star == "*"

\* {f'{alias}.{k}': v for k, v in d.items()}
PrefixedNoDot(alias, d) == [i \in 1..Len(d) |-> [key |-> alias \o d[i].key, val |-> d[i].val]]
Prefixed(alias, d) ==
    [i \in 1..Len(d) |-> [key |-> alias \o <<Dot>> \o d[i].key, val |-> d[i].val]]

RECURSIVE get_all_rules(_), merge_imported_rules(_, _)
\* The loop of Project.get_all_rules over self.imports.items().
merge_imported_rules(all_rules, imports) ==
    IF imports = <<>> THEN all_rules
    ELSE merge_imported_rules(
            DictUpdate(all_rules, Prefixed(Head(imports).key, get_all_rules(Head(imports).val))),
            Tail(imports))

\* Project.get_all_rules
get_all_rules(p) == merge_imported_rules(p.rules, p.imports)

RECURSIVE get_all_vars(_), merge_imported_vars(_, _)
\* The loop of Project.get_all_vars over self.imports.items().
merge_imported_vars(all_vars, imports) ==
    IF imports = <<>> THEN all_vars
    ELSE merge_imported_vars(
            DictUpdate(all_vars, Prefixed(Head(imports).key, get_all_vars(Head(imports).val))),
            Tail(imports))

\* Project.get_all_vars
get_all_vars(p) == IF p.imports = <<>> THEN p.vars ELSE merge_imported_vars(p.vars, p.imports)

\* Python's re, for the patterns made of literal characters, '.' and a
\* character or '.' followed by '*'.
RECURSIVE fullmatch(_, _)
\* re.fullmatch(pattern, name) is not None
fullmatch(pattern, name) ==
    IF pattern = <<>> THEN name = <<>>
    ELSE LET first == name # <<>> /\ (pattern[1] = Dot \/ pattern[1] = name[1])
         IN  IF Len(pattern) >= 2 /\ pattern[2] = Star
             THEN \/ fullmatch(SubSeq(pattern, 3, Len(pattern)), name)
                  \/ first /\ fullmatch(pattern, Tail(name))
             ELSE first /\ fullmatch(Tail(pattern), Tail(name))

\* re.match(pattern, name) is not None: the pattern matches at the start.
re_match(pattern, name) == \E n \in 0..Len(name) : fullmatch(pattern, SubSeq(name, 1, n))

\* The test of Project.select_rules on the name: re.fullmatch.
name_matches(pattern, name) == fullmatch(pattern, name)

\* A selection made pattern by pattern: the rules each pattern matches, in the
\* order of the patterns.
select_rules_pattern_major(p, names_patterns, tags) ==
    IF names_patterns = <<>>
    THEN SelectSeq(get_all_rules(p), LAMBDA item :
            tags = <<>> \/ \E i \in 1..Len(tags) : tags[i] \in Range(item.val.tags))
    ELSE DictUpdate(<<>>, Flatten([n \in 1..Len(names_patterns) |->
            SelectSeq(get_all_rules(p), LAMBDA item :
                /\ name_matches(names_patterns[n], item.key)
                /\ tags = <<>> \/ \E i \in 1..Len(tags) : tags[i] \in Range(item.val.tags))]))

\* Project.select_rules
select_rules(p, names_patterns, tags) ==
    SelectSeq(get_all_rules(p), LAMBDA item :
        /\ names_patterns = <<>>
           \/ \E i \in 1..Len(names_patterns) : name_matches(names_patterns[i], item.key)
        /\ tags = <<>>
           \/ \E i \in 1..Len(tags) : tags[i] \in Range(item.val.tags))

\* name.split('.', 1): the name, or the part before the first dot and the rest.
FirstDot(name) == CHOOSE i \in 1..Len(name) : name[i] = Dot /\ \A j \in 1..(i - 1) : name[j] # Dot
SplitOnce(name) ==
    IF Dot \notin Range(name) THEN <<name>>
    ELSE <<SubSeq(name, 1, FirstDot(name) - 1), SubSeq(name, FirstDot(name) + 1, Len(name))>>

\* What a lookup gives: the object found, or the KeyError raised.
Found(v) == [raised |-> FALSE, val |-> v, error |-> "none"]
KeyError(msg) == [raised |-> TRUE, val |-> <<>>, error |-> msg]

\* The test of the dotted branch of get / get_rule / get_var on the alias.
ImportKnown(imports, alias) == DictHas(imports, alias)

RECURSIVE get_rule(_, _)
\* Project.get_rule
get_rule(p, name) ==
    LET tokens == SplitOnce(name)
    IN  IF Len(tokens) = 1
        THEN IF DictHas(p.rules, name) THEN Found(DictGet(p.rules, name))
             ELSE KeyError("Rule not found")
        ELSE IF ImportKnown(p.imports, tokens[1])
             THEN get_rule(DictGet(p.imports, tokens[1]), tokens[2])
             ELSE KeyError("Import not found")

RECURSIVE get_var(_, _)
\* Project.get_var
get_var(p, name) ==
    LET tokens == SplitOnce(name)
    IN  IF Len(tokens) = 1
        THEN IF DictHas(p.vars, name) THEN Found(DictGet(p.vars, name))
             ELSE KeyError("Variable not found")
        ELSE IF ImportKnown(p.imports, tokens[1])
             THEN get_var(DictGet(p.imports, tokens[1]), tokens[2])
             ELSE KeyError("Import not found")

RECURSIVE get(_, _)
\* Project.get: a rule first, then a variable.
get(p, name) ==
    LET tokens == SplitOnce(name)
    IN  IF Len(tokens) = 1
        THEN IF DictHas(p.rules, name) THEN Found(DictGet(p.rules, name))
             ELSE IF DictHas(p.vars, name) THEN Found(DictGet(p.vars, name))
             ELSE KeyError("Rule not found")
        ELSE IF ImportKnown(p.imports, tokens[1])
             THEN get(DictGet(p.imports, tokens[1]), tokens[2])
             ELSE KeyError("Import not found")

\* The keys of a dict, in order.
keys(d) == [i \in 1..Len(d) |-> d[i].key]
\* The executions of a loop over names: the rules of failing raise, and the
\* first that raises ends the loop.
FirstRaise(names, failing) ==
    IF \E i \in 1..Len(names) : names[i] \in failing
    THEN CHOOSE i \in 1..Len(names) :
            names[i] \in failing /\ \A j \in 1..(i - 1) : names[j] \notin failing
    ELSE 0
execute_each(names, failing) ==
    [raised |-> FirstRaise(names, failing) # 0,
     executed |-> IF FirstRaise(names, failing) = 0 THEN names
                  ELSE SubSeq(names, 1, FirstRaise(names, failing))]
\* Project.run(rules, force)
project_run(rules_, failing) == execute_each(keys(rules_), failing)

RECURSIVE get_summary(_), imports_summary(_)
\* Project.get_summary: the configuration file, the variables, the rules, then
\* the summary of each import.
get_summary(p) ==
    <<p.config_file>> \o keys(p.vars) \o [i \in 1..Len(p.rules) |-> p.rules[i].val.name]
        \o imports_summary(p.imports)
imports_summary(imports) ==
    IF imports = <<>> THEN <<>>
    ELSE get_summary(Head(imports).val) \o imports_summary(Tail(imports))

\* Project.__init__ on a configuration whose imports are loaded: one Rule per
\* entry of the 'rules' block.  path is the alias path that leads to the
\* project; it names the configuration file.
NoFiles == [f \in Files |-> NoFile]
NewProject(path, config, imports) ==
    [config_file |-> path,
     vars |-> config.vars,
     rules |-> [i \in 1..Len(config.rules) |->
                  [key |-> config.rules[i].key,
                   val |-> NewRule(NoFiles, <<path, config.rules[i].key>>,
                                   config.rules[i].key, config.rules[i].val)]],
     imports |-> imports]

\* The configurations of the project trees: rule blocks with tags only.
RuleBlock(tags) ==
    [tags |-> tags, required_files |-> <<>>, expected_files |-> <<>>,
     commands |-> <<>>, working_directory |-> NoDir]
ProjectConfigs ==
    {[rules |-> <<>>, vars |-> <<>>],
     [rules |-> <<[key |-> <<"b">>, val |-> RuleBlock(<<"release">>)],
                  [key |-> <<"b", "x">>, val |-> RuleBlock(<<"dev">>)]>>,
      vars |-> <<[key |-> <<"V">>, val |-> "1"]>>],
     [rules |-> <<[key |-> <<"s", Dot, "b">>, val |-> RuleBlock(<<"release", "dev">>)],
                  [key |-> <<"t">>, val |-> RuleBlock(<<>>)]>>,
      vars |-> <<[key |-> <<"s", Dot, "V">>, val |-> "2"], [key |-> <<"V">>, val |-> "3"]>>]}
Aliases == {<<"s">>, <<"i">>}

RECURSIVE Projects(_, _), Imports(_, _, _)
\* The projects at alias path path that import at most n projects in all.
Projects(n, path) ==
    {NewProject(path, c, imps) : c \in ProjectConfigs, imps \in Imports(n, path, Aliases)}
\* The import dicts of such a project, with aliases out of A.
Imports(n, path, A) ==
    {<<>>} \cup
    UNION {UNION {{<<[key |-> a, val |-> child]>> \o rest :
                        child \in Projects(k - 1, Append(path, a)),
                        rest \in Imports(n - k, path, A \ {a})} :
                  a \in A} :
           k \in 1..n}

\* The arguments of select_rules.
PatternLists ==
    {<<>>, <<<<"b">>>>, <<<<"x">>>>, <<<<"b", Dot, Star>>>>, <<<<Dot, Star, "b">>>>,
     <<<<"s", Dot, "b">>>>, <<<<"t">>, <<"b", "x", Star>>>>, <<<<"b", "x">>, <<"b">>>>}
TagLists == {<<>>, <<"release">>, <<"dev", "release">>, <<"none">>}

\* ------------------------------------------------------------------ strings
\* Strings that are searched and rewritten are sequences of characters.
\* sub is at position i of s.
IsAt(s, sub, i) == i + Len(sub) - 1 <= Len(s) /\ SubSeq(s, i, i + Len(sub) - 1) = sub
\* sub in s[from:]
ContainsFrom(s, sub, from) == \E i \in from..Len(s) : IsAt(s, sub, i)
\* sub in s
Contains(s, sub) == ContainsFrom(s, sub, 1)
\* s.index(sub, from), where sub is in s[from:]
Index(s, sub, from) ==
    CHOOSE i \in from..Len(s) : IsAt(s, sub, i) /\ \A j \in from..(i - 1) : ~IsAt(s, sub, j)

RECURSIVE Replace(_, _, _)
\* s.replace(old, new): every occurrence, left to right, without overlap.
Replace(s, old, new) ==
    IF ~Contains(s, old) THEN s
    ELSE LET i == Index(s, old, 1)
         IN  SubSeq(s, 1, i - 1) \o new \o Replace(SubSeq(s, i + Len(old), Len(s)), old, new)

\* f'${{{key}}}'
Marker(key) == <<"$", "{">> \o key \o <<"}">>
CommandOpen == <<"$", "(">>
CommandClose == <<")">>

\* ------------------------------------------------------ variable resolution
\* What a $(...) command does: its exit status and its stripped output.
CommandResults == {[ok |-> TRUE, out |-> <<"o">>], [ok |-> FALSE, out |-> <<>>]}
\* The results of the successive commands of one resolution: all succeed, or
\* one fails (what would come after it is never run).
Oracles ==
    {[i \in 1..MaxSpawn |-> [ok |-> i # f, out |-> IF i # f THEN <<"o">> ELSE <<>>]] :
        f \in 0..MaxSpawn}

RECURSIVE substitute_vars_blank_unknown(_, _)
substitute_vars_blank_unknown(value, all_vars) ==
    IF all_vars = <<>> THEN Replace(value, Marker(<<"U">>), <<>>)
    ELSE substitute_vars_blank_unknown(
            IF ~Contains(value, Marker(Head(all_vars).key)) THEN value
            ELSE Replace(value, Marker(Head(all_vars).key), Head(all_vars).val),
            Tail(all_vars))

substitute_vars_first_only(value, all_vars) ==
    IF all_vars = <<>> \/ ~Contains(value, Marker(Head(all_vars).key)) THEN value
    ELSE Replace(value, Marker(Head(all_vars).key), Head(all_vars).val)

RECURSIVE substitute_vars(_, _)
\* The for loop of Project.__resolve_variable_value over get_all_vars().items().
substitute_vars(value, all_vars) ==
    IF all_vars = <<>> THEN value
    ELSE substitute_vars(
            IF ~Contains(value, Marker(Head(all_vars).key)) THEN value
            ELSE Replace(value, Marker(Head(all_vars).key), Head(all_vars).val),
            Tail(all_vars))

\* except sp.CalledProcessError: raise ValueError
CheckOutputRaisesNever(r) == FALSE
CheckOutputRaises(r) == ~r.ok

RECURSIVE expand_commands(_, _, _)
\* The inner while loop of Project.__resolve_variable_value.  ran lists the
\* commands spawned so far, each with its exit status.
expand_commands(value, oracle, ran) ==
    IF ~Contains(value, CommandOpen)
    THEN [raised |-> "none", value |-> value, ran |-> ran]
    ELSE LET start_idx == Index(value, CommandOpen, 1)
         IN  IF ~ContainsFrom(value, CommandClose, start_idx)
             THEN [raised |-> "ValueError: substring not found", value |-> value, ran |-> ran]
             ELSE IF Len(ran) >= MaxSpawn
             THEN [raised |-> "running", value |-> value, ran |-> ran]
             ELSE LET end_idx == Index(value, CommandClose, start_idx)
                      command == SubSeq(value, start_idx + 2, end_idx - 1)
                      r == oracle[Len(ran) + 1]
                      spawned == Append(ran, [cmd |-> command, ok |-> r.ok])
                  IN  IF CheckOutputRaises(r)
                      THEN [raised |-> "ValueError: Failed to execute command",
                            value |-> value, ran |-> spawned]
                      ELSE expand_commands(
                              SubSeq(value, 1, start_idx - 1) \o r.out
                                  \o SubSeq(value, end_idx + 1, Len(value)),
                              oracle, spawned)

resolve_single_pass(value, last_value, all_vars, oracle, ran, passes) ==
    LET e == expand_commands(substitute_vars(value, all_vars), oracle, ran)
    IN  IF e.raised = "running"
        THEN [status |-> "running", error |-> "none", value |-> e.value, ran |-> e.ran]
        ELSE IF e.raised # "none"
        THEN [status |-> "raised", error |-> e.raised, value |-> e.value, ran |-> e.ran]
        ELSE [status |-> "returned", error |-> "none", value |-> e.value, ran |-> e.ran]

RECURSIVE resolve_until_plain(_, _, _, _, _, _)
resolve_until_plain(value, last_value, all_vars, oracle, ran, passes) ==
    IF ~Contains(value, CommandOpen) /\ \A i \in 1..Len(all_vars) : ~Contains(value, Marker(all_vars[i].key))
    THEN [status |-> "returned", error |-> "none", value |-> value, ran |-> ran]
    ELSE IF passes = 0
    THEN [status |-> "running", error |-> "none", value |-> value, ran |-> ran]
    ELSE LET e == expand_commands(substitute_vars(value, all_vars), oracle, ran)
         IN  IF e.raised = "running"
             THEN [status |-> "running", error |-> "none", value |-> e.value, ran |-> e.ran]
             ELSE IF e.raised # "none"
             THEN [status |-> "raised", error |-> e.raised, value |-> e.value, ran |-> e.ran]
             ELSE resolve_until_plain(e.value, value, all_vars, oracle, e.ran, passes - 1)

RECURSIVE resolve_loop(_, _, _, _, _, _)
\* The outer while loop of Project.__resolve_variable_value: passes until a
\* pass changes nothing.  status is "returned", "raised" or "running".
resolve_loop(value, last_value, all_vars, oracle, ran, passes) ==
    IF last_value = value
    THEN [status |-> "returned", error |-> "none", value |-> value, ran |-> ran]
    ELSE IF passes = 0
    THEN [status |-> "running", error |-> "none", value |-> value, ran |-> ran]
    ELSE LET e == expand_commands(substitute_vars(value, all_vars), oracle, ran)
         IN  IF e.raised = "running"
             THEN [status |-> "running", error |-> "none", value |-> e.value, ran |-> e.ran]
             ELSE IF e.raised # "none"
             THEN [status |-> "raised", error |-> e.raised, value |-> e.value, ran |-> e.ran]
             ELSE resolve_loop(e.value, value, all_vars, oracle, e.ran, passes - 1)

\* Project.__resolve_variable_value
resolve_variable_value(value, all_vars, oracle) ==
    resolve_loop(value, <<>>, all_vars, oracle, <<>>, MaxPasses)

\* Rule.__apply_variables: every ${var} of every variable is replaced, once.
RECURSIVE apply_variables(_, _)
apply_variables(value, variables) ==
    IF variables = <<>> THEN value
    ELSE apply_variables(Replace(value, Marker(Head(variables).key), Head(variables).val),
                         Tail(variables))

\* ----------------------------------------------------- project construction
\* The built-in variables (PROJECT_DIR and the like): names and values that
\* the configuration does not choose.
Builtins == <<[key |-> <<"P">>, val |-> <<"/">>]>>

\* The three layers of Project.__init__, lowest first.
LayerVarsBuiltinsLast(config_vars, cl_variables) ==
    DictUpdate(DictUpdate(DictUpdate(<<>>, config_vars), cl_variables), Builtins)
LayerVars(config_vars, cl_variables) ==
    DictUpdate(DictUpdate(DictUpdate(<<>>, config_vars), Builtins), cl_variables)

\* The values a configuration or a command line gives to a variable.
ValueStrings ==
    {<<"x">>,
     <<"$", "{", "A", "}">>,
     <<"$", "{", "B", "}">>,
     <<"$", "{", "B", "}", "$", "{", "U", "}">>,
     <<"$", "{", "A", "}", "y">>,
     <<"$", "(", "c", ")", "$", "(", "d", ")">>}
VarKeys == {<<"A">>, <<"B">>, <<"C">>, <<"P">>}
\* The dicts of at most n variables with keys out of K.
RECURSIVE VarDicts(_, _)
VarDicts(n, K) ==
    IF n = 0 THEN {<<>>}
    ELSE {<<>>} \cup UNION {{<<[key |-> k, val |-> v]>> \o rest :
                                v \in ValueStrings, rest \in VarDicts(n - 1, K \ {k})} :
                            k \in K}
ConfigVars == VarDicts(MaxVars, VarKeys)
CommandLineVars ==
    {<<>>,
     <<[key |-> <<"P">>, val |-> <<"k">>]>>,
     <<[key |-> <<"B">>, val |-> <<"$", "{", "A", "}">>]>>}
\* The 'rules' block of the configuration under construction: one rule whose
\* command refers to a variable.
BuildRuleConfigs ==
    <<[key |-> <<"r">>,
       val |-> [tags |-> <<>>, required_files |-> <<>>, expected_files |-> <<>>,
                commands |-> << <<"e", "$", "{", "A", "}">> >>, working_directory |-> NoDir]]>>

\* Rule(name, rules[name], self.get_all_vars(), ...) for every name.
LoadedRules(rule_configs, all_vars) ==
    [i \in 1..Len(rule_configs) |->
        [key |-> rule_configs[i].key,
         val |-> NewRule(NoFiles, <<<<>>, rule_configs[i].key>>, rule_configs[i].key,
                         [rule_configs[i].val EXCEPT
                            !.commands = [j \in 1..Len(@) |-> apply_variables(@[j], all_vars)]])]]

\* ----------------------------------------------------------------- commands
\* A raw command is a sequence of atoms: the space, the characters '@' and
\* '+', and words.
Space == " "
At == "@"
\* str.lower() on an atom.
LowerAtom(a) == IF a = "SILENT" THEN "silent" ELSE IF a = "ALWAYS-RUN" THEN "always-run" ELSE a
Lower(token) == [i \in 1..Len(token) |-> LowerAtom(token[i])]

RECURSIVE Split(_)
\* str.split(): the maximal runs without whitespace.
Split(s) ==
    IF s = <<>> THEN <<>>
    ELSE IF Head(s) = Space THEN Split(Tail(s))
    ELSE LET n == IF Space \in Range(s)
                  THEN (CHOOSE i \in 1..Len(s) : s[i] = Space /\ \A j \in 1..(i - 1) : s[j] # Space) - 1
                  ELSE Len(s)
         IN  <<SubSeq(s, 1, n)>> \o Split(SubSeq(s, n + 1, Len(s)))

RECURSIVE Join(_)
\* ' '.join(tokens)
Join(tokens) ==
    IF tokens = <<>> THEN <<>>
    ELSE IF Len(tokens) = 1 THEN tokens[1]
    ELSE tokens[1] \o <<Space>> \o Join(Tail(tokens))

\* The tokens that set a flag.
AlwaysRunToken == <<At, "always-run">>
SilentToken == <<At, "silent">>

\* token.startswith('@')
IsMacroRecognized(token) == token \in {AlwaysRunToken, SilentToken}
IsMacro(token) == token # <<>> /\ token[1] = At

RECURSIVE scan_macros(_, _)
\* The for loop of Command.__init__ over the tokens: metadata and nb_macros.
scan_macros(tokens, m) ==
    IF tokens = <<>> \/ ~IsMacro(Lower(Head(tokens))) THEN m
    ELSE scan_macros(Tail(tokens),
            [nb_macros |-> m.nb_macros + 1,
             always_run |-> m.always_run \/ Lower(Head(tokens)) = AlwaysRunToken,
             silent |-> m.silent \/ Lower(Head(tokens)) = SilentToken])

\* Command(raw_command): the metadata and the command text.
NewCommand(raw_command) ==
    LET tokens == Split(raw_command)
        m == scan_macros(tokens, [nb_macros |-> 0, always_run |-> FALSE, silent |-> FALSE])
    IN  [metadata |-> [always_run |-> m.always_run, silent |-> m.silent],
         command |-> Join(SubSeq(tokens, m.nb_macros + 1, Len(tokens)))]

\* The tokens raw commands are made of, and the raw commands: the tokens
\* joined by one space, or by two with a space in front.
Tokens ==
    {<<At, "silent">>, <<At, "SILENT">>, <<At, "always-run">>, <<At, "foo">>,
     <<"+", "silent">>, <<"+", "always">>, <<"x">>}
TokenLists == UNION {[1..n -> Tokens] : n \in 0..MaxTokens}
RECURSIVE JoinWide(_)
JoinWide(tokens) ==
    IF tokens = <<>> THEN <<Space>> ELSE <<Space>> \o Head(tokens) \o <<Space>> \o JoinWide(Tail(tokens))
RawCommands == {Join(ts) : ts \in TokenLists} \cup {JoinWide(ts) : ts \in TokenLists}

\* The raw text of the commands of the rules: the second one is flagged
\* always-run, the third one silent.
RawCommandOf(cmd) ==
    IF cmd = CommandNames[2] THEN <<At, "always-run", Space, "x">>
    ELSE IF cmd = CommandNames[3] THEN <<At, "silent", Space, "x">>
    ELSE <<"x">>

\* ---------------------------------------------------------------- processes
\* What a spawned process does: it writes lines to its stdout ("out") or
\* stderr ("err"), then exits with a status.  The n-th line it writes is n.
Scripts == UNION {[1..n -> {"out", "err"}] : n \in 0..MaxWrites}
ExitCodes == {0, 2}
\* The commands that are executed: a plain one and a silent one.
ExecutedCommands == {<<"x">>, <<At, "silent", Space, "x">>}
NoError == [type |-> "none", returncode |-> 0, stderr |-> <<>>]
\* raise CommandExecutionError() from e, e being
\* CalledProcessError(returncode, command, stderr=stderr)
CommandExecutionError(returncode, stderr) ==
    [type |-> "CommandExecutionError", returncode |-> returncode, stderr |-> stderr]

\* ------------------------------------------------------- foreign manifests
\* The path of an import is a sequence of atoms: names, the separator, and
\* the pieces of a file name that stand before or after a manifest name.
Slash == "/"
PyprojectToml == "pyproject.toml"
PackageJson == "package.json"
BuildYml == "build.yml"
\* FilesLoaders.keys(), in order
FilesLoaderNames == << <<PyprojectToml>>, <<PackageJson>> >>

\* s.endswith(suffix)
EndsWith(s, suffix) ==
    Len(s) >= Len(suffix) /\ SubSeq(s, Len(s) - Len(suffix) + 1, Len(s)) = suffix

\* is_project_file(filepath)
is_project_file(filepath) ==
    \E i \in 1..Len(FilesLoaderNames) : EndsWith(filepath, FilesLoaderNames[i])

\* os.path.basename(path)
basename(path) ==
    IF Slash \notin Range(path) THEN path
    ELSE LET i == CHOOSE i \in 1..Len(path) :
                    path[i] = Slash /\ \A j \in (i + 1)..Len(path) : path[j] # Slash
         IN  SubSeq(path, i + 1, Len(path))

\* os.path.splitext(name)[0]: the name without its last extension.
StemAtom(a) ==
    CASE a = PyprojectToml -> "pyproject"
      [] a = PackageJson -> "package"
      [] a = BuildYml -> "build"
      [] a = "PYPROJECT.TOML" -> "PYPROJECT"
      [] OTHER -> a
stem(name) ==
    IF name = <<>> THEN <<>>
    ELSE IF name[Len(name)] = ".bak" THEN SubSeq(name, 1, Len(name) - 1)
    ELSE SubSeq(name, 1, Len(name) - 1) \o <<StemAtom(name[Len(name)])>>

\* The values a TOML or JSON document holds.  text is the text of a string,
\* the numeral of a number or the literal of a boolean; items are the items of
\* a list, or the entries of a table: the key as text, the value as one item.
PyStr(s) == [kind |-> "str", text |-> s, items |-> <<>>]
PyInt(n) == [kind |-> "int", text |-> <<ToString(n)>>, items |-> <<>>]
PyBool(b) == [kind |-> "bool", text |-> IF b THEN <<"true">> ELSE <<"false">>, items |-> <<>>]
PyNone == [kind |-> "none", text |-> <<>>, items |-> <<>>]
PyList(items) == [kind |-> "list", text |-> <<>>, items |-> items]
PyDict(d) ==
    [kind |-> "dict", text |-> <<>>,
     items |-> [i \in 1..Len(d) |-> [kind |-> "entry", text |-> d[i].key, items |-> <<d[i].val>>]]]
\* The dict of a table.
AsDict(v) == [i \in 1..Len(v.items) |-> [key |-> v.items[i].text, val |-> v.items[i].items[1]]]

RECURSIVE JoinWith(_, _)
\* sep.join(parts)
JoinWith(sep, parts) ==
    IF parts = <<>> THEN <<>>
    ELSE IF Len(parts) = 1 THEN parts[1]
    ELSE parts[1] \o sep \o JoinWith(sep, Tail(parts))

RECURSIVE str(_)
\* str(v); v inside a list or a dict is shown by repr, a string in quotes.
str(v) ==
    LET repr(x) == IF x.kind = "str" THEN <<"'">> \o x.text \o <<"'">> ELSE str(x)
    IN  CASE v.kind = "str" -> v.text
          [] v.kind = "int" -> v.text
          [] v.kind = "bool" -> IF v.text = <<"true">> THEN <<"True">> ELSE <<"False">>
          [] v.kind = "none" -> <<"None">>
          [] v.kind = "list" ->
                <<"[">> \o JoinWith(<<",", " ">>, [i \in 1..Len(v.items) |-> repr(v.items[i])])
                    \o <<"]">>
          [] v.kind = "dict" ->
                <<"{">> \o JoinWith(<<",", " ">>,
                            [i \in 1..Len(v.items) |->
                                <<"'">> \o v.items[i].text \o <<"'", ":", " ">>
                                    \o repr(v.items[i].items[1])])
                    \o <<"}">>

\* list2str(lst)
list2str(lst) == JoinWith(<<",", " ">>, [i \in 1..Len(lst) |-> str(lst[i])])

RECURSIVE flatten(_, _), flatten_items(_, _, _)
\* The loop of flatten over dic.items(), items being the dict built so far.
flatten_items(items, dic, parent_key) ==
    IF dic = <<>> THEN items
    ELSE LET k == Head(dic).key
             v == Head(dic).val
             new_key == IF parent_key # <<>> THEN parent_key \o <<Dot>> \o k ELSE k
         IN  flatten_items(
                IF v.kind = "dict" THEN DictUpdate(items, flatten(AsDict(v), new_key))
                ELSE DictSet(items, new_key, v),
                Tail(dic), parent_key)
\* flatten(dic, parent_key)
flatten(dic, parent_key) == flatten_items(<<>>, dic, parent_key)

\* What is at a path: a document of a format, or nothing.  A TOML or JSON
\* document has data, a YAML one is a build configuration.
NoConfig == [vars |-> <<>>, imports |-> <<>>, rules |-> <<>>]
TomlFile(data) == [format |-> "toml", data |-> data, config |-> NoConfig]
JsonFile(data) == [format |-> "json", data |-> data, config |-> NoConfig]
YamlFile(config) == [format |-> "yaml", data |-> <<>>, config |-> config]
Missing == [format |-> "none", data |-> <<>>, config |-> NoConfig]

\* What a load gives: the object, or the exception raised.
Loaded(v) == [raised |-> "none", val |-> v]
Raised(e) == [raised |-> e, val |-> <<>>]

\* load_project_file(filepath), file being what is at filepath.
load_project_file(filepath, file) ==
    IF EndsWith(filepath, FilesLoaderNames[1])
    THEN IF file.format # "toml" THEN Raised("TOMLDecodeError")
         ELSE IF ~DictHas(file.data, <<"project">>)
         THEN Raised("ValueError: no [project] section")
         ELSE Loaded(AsDict(DictGet(file.data, <<"project">>)))
    ELSE IF EndsWith(filepath, FilesLoaderNames[2])
    THEN IF file.format # "json" THEN Raised("JSONDecodeError") ELSE Loaded(file.data)
    ELSE Raised("ValueError: Unsupported file type")

\* imp.get('as', <file name without extension>)
NoAlias == <<>>
alias_of(imp, path) == IF imp.as = NoAlias THEN stem(basename(path)) ELSE imp.as

RECURSIVE store_entries(_, _, _)
\* The loop of Project.__load_config_file over flatten(data).items().
store_entries(self_vars, entries, as_name) ==
    IF entries = <<>> THEN self_vars
    ELSE LET key == as_name \o <<Dot>> \o Head(entries).key
             value == Head(entries).val
         IN  store_entries(
                IF value.kind = "list" THEN DictSet(self_vars, key, list2str(value.items))
                ELSE IF value.kind \in {"str", "int", "bool"} THEN DictSet(self_vars, key, str(value))
                ELSE self_vars,
                Tail(entries), as_name)

\* Project.__load_config_file: self.vars afterwards, or the exception.
load_config_file(self_vars, imp, path, file) ==
    LET data == load_project_file(path, file)
    IN  IF data.raised # "none" THEN data
        ELSE Loaded(store_entries(self_vars, flatten(data.val, <<>>), alias_of(imp, path)))

\* The three self.vars.update calls of Project.__init__ on top of the
\* variables the manifests gave.
layer_vars(self_vars, config_vars, cl_variables) ==
    DictUpdate(DictUpdate(DictUpdate(self_vars, config_vars), Builtins), cl_variables)

\* The commands of a resolution without $(...): none is run.
NoCommandsOracle == [i \in 1..MaxSpawn |-> [ok |-> TRUE, out |-> <<"o">>]]

RECURSIVE resolve_all_variables(_, _, _), store_resolved(_, _, _, _)
\* Project.__resolve_all_variables from key number i on: self.vars afterwards.
resolve_all_variables(self_vars, self_imports, i) ==
    IF i > Len(self_vars) THEN Loaded(self_vars)
    ELSE store_resolved(self_vars, self_imports, i,
            resolve_variable_value(
                self_vars[i].val,
                get_all_vars([vars |-> self_vars, imports |-> self_imports]),
                NoCommandsOracle))
\* self.vars[key] = <the resolved value out>, and the rest of the loop.
store_resolved(self_vars, self_imports, i, out) ==
    IF out.status = "raised" THEN Raised(out.error)
    ELSE IF out.status = "running" THEN Raised("running")
    ELSE resolve_all_variables([self_vars EXCEPT ![i].val = out.value], self_imports, i + 1)

\* The loop of Project.__init__ over config['rules'].
load_rules(path, rule_configs, all_vars) ==
    [i \in 1..Len(rule_configs) |->
        [key |-> rule_configs[i].key,
         val |-> NewRule(NoFiles, <<path, rule_configs[i].key>>, rule_configs[i].key,
                         [rule_configs[i].val EXCEPT
                            !.commands = [j \in 1..Len(@) |-> apply_variables(@[j], all_vars)]])]]

\* Project.__init__ after the resolution: self.rules is filled from the
\* 'rules' block, the commands taking the variables of get_all_vars().
with_rules(path, config, p) ==
    [p EXCEPT !.rules = load_rules(path, config.rules, get_all_vars(p))]
\* Project.__init__ once __resolve_all_variables has ended with resolved.
after_resolution(path, config, self, resolved) ==
    IF resolved.raised # "none" THEN resolved
    ELSE Loaded(with_rules(path, config, [self EXCEPT !.vars = resolved.val]))
\* Project.__init__ after the imports: layering, resolution, rules.
finish_project(path, config, self, cl_variables) ==
    after_resolution(path, config, self,
        resolve_all_variables(
            layer_vars(self.vars, config.vars, cl_variables), self.imports, 1))

\* self.__load_config(): yaml.safe_load of what is at the path.  A JSON
\* document is a YAML mapping, without the keys of a build configuration.
load_config(file) ==
    CASE file.format = "yaml" -> Loaded(file.config)
      [] file.format = "json" -> Loaded(NoConfig)
      [] file.format = "toml" -> Raised("YAMLError")
      [] OTHER -> Raised("FileNotFoundError")

\* The Project whose construction has just begun: self.vars = {}, self.imports = {}.
EmptyProject(path) == [config_file |-> path, vars |-> <<>>, rules |-> <<>>, imports |-> <<>>]

RECURSIVE ConstructProject(_, _, _), load_imports(_, _, _), load_import(_, _, _),
          load_sub_project(_, _, _, _)

\* self.imports[alias] = child, child being what Project(...) gave.
store_sub_project(self_imports, alias, child) ==
    IF child.raised # "none" THEN child
    ELSE Loaded(DictSet(self_imports, alias, child.val))

\* Project.__load_sub_project: self.imports afterwards, or the exception.
load_sub_project_without_overrides(self_imports, imp, path, cl_variables) ==
    store_sub_project(self_imports, alias_of(imp, path), ConstructProject(path, imp.file, <<>>))

load_sub_project(self_imports, imp, path, cl_variables) ==
    store_sub_project(self_imports, alias_of(imp, path),
                      ConstructProject(path, imp.file, cl_variables))

\* What one turn of the loop over the imports gives: self with the variables
\* v or the imports m the loader returned, or the exception it raised.
import_outcome(self, path, loader, out) ==
    [raised |-> out.raised,
     val |-> IF out.raised # "none" THEN <<>>
             ELSE IF loader = "load_config_file" THEN [self EXCEPT !.vars = out.val]
             ELSE [self EXCEPT !.imports = out.val],
     path |-> path, loader |-> loader]

\* The choice of the loader for a path.
load_path(self, imp, path, cl_variables) ==
    IF is_project_file(path)
    THEN import_outcome(self, path, "load_config_file",
                        load_config_file(self.vars, imp, path, imp.file))
    ELSE import_outcome(self, path, "load_sub_project",
                        load_sub_project(self.imports, imp, path, cl_variables))

\* One turn of the loop of Project.__init__ over the imports: self afterwards,
\* and the loader the path was given to.  For a directory, imp.file is its
\* build.yml.
load_import(self, imp, cl_variables) ==
    IF imp.isdir /\ imp.file.format = "none"
    THEN [raised |-> "ValueError: Import path is a directory but no build.yml found",
          val |-> <<>>, path |-> imp.path, loader |-> "none"]
    ELSE load_path(self, imp, IF imp.isdir THEN imp.path \o <<Slash, BuildYml>> ELSE imp.path,
                   cl_variables)

\* The rest of the loop after the turn that gave next.
load_rest(next, imports_list, cl_variables) ==
    IF next.raised # "none" THEN next
    ELSE load_imports(next.val, imports_list, cl_variables)

\* The loop over the imports, from self on.
load_imports(self, imports_list, cl_variables) ==
    IF imports_list = <<>> THEN Loaded(self)
    ELSE load_rest(load_import(self, Head(imports_list), cl_variables),
                   Tail(imports_list), cl_variables)

\* Project.__init__ once the loop over the imports has ended with self.
after_imports(path, config, self, cl_variables) ==
    IF self.raised # "none" THEN self
    ELSE finish_project(path, config, self.val, cl_variables)

\* Project.__init__ once __load_config has given config.
after_config(path, config, cl_variables) ==
    IF config.raised # "none" THEN config
    ELSE after_imports(path, config.val,
                       load_imports(EmptyProject(path), config.val.imports, cl_variables),
                       cl_variables)

\* Project(config_file, cl_variables), file being what is at config_file.
ConstructProject(path, file, cl_variables) == after_config(path, load_config(file), cl_variables)


\* The data of the manifests: scalars, a list of scalars, a nested table with
\* a null, a list of tables, and a boolean with an empty table and an empty list.
ManifestData ==
    {<<[key |-> <<"name">>, val |-> PyStr(<<"n">>)], [key |-> <<"version">>, val |-> PyInt(1)]>>,
     <<[key |-> <<"keywords">>, val |-> PyList(<<PyStr(<<"a">>), PyStr(<<"b">>)>>)]>>,
     <<[key |-> <<"urls">>, val |-> PyDict(<<[key |-> <<"home">>, val |-> PyStr(<<"h">>)]>>)],
       [key |-> <<"license">>, val |-> PyNone]>>,
     <<[key |-> <<"name">>, val |-> PyStr(<<"n">>)],
       [key |-> <<"authors">>,
        val |-> PyList(<<PyDict(<<[key |-> <<"name">>, val |-> PyStr(<<"x">>)]>>)>>)]>>,
     <<[key |-> <<"private">>, val |-> PyBool(TRUE)], [key |-> <<"deps">>, val |-> PyDict(<<>>)],
       [key |-> <<"files">>, val |-> PyList(<<>>)]>>}
ScalarData == <<[key |-> <<"name">>, val |-> PyStr(<<"n">>)], [key |-> <<"version">>, val |-> PyInt(1)]>>
Pyproject(data) == TomlFile(<<[key |-> <<"project">>, val |-> PyDict(data)]>>)

\* The imports of a manifest, and of files whose names resemble one.
Import(path, as, isdir, file) == [path |-> path, as |-> as, isdir |-> isdir, file |-> file]
ManifestImports ==
    {Import(<<PyprojectToml>>, <<"m">>, FALSE, Pyproject(d)) : d \in ManifestData}
    \cup {Import(<<"a", Slash, PackageJson>>, NoAlias, FALSE, JsonFile(d)) :
            d \in {ScalarData} \cup {d \in ManifestData : Len(d) = 1}}
    \cup {Import(<<PyprojectToml>>, <<"m">>, FALSE,
                 TomlFile(<<[key |-> <<"tool">>, val |-> PyDict(<<>>)]>>)),
          Import(<<"my_", PyprojectToml>>, <<"m">>, FALSE, Pyproject(ScalarData)),
          Import(<<"PYPROJECT.TOML">>, <<"m">>, FALSE, Pyproject(ScalarData)),
          Import(<<PackageJson, ".bak">>, <<"m">>, FALSE, JsonFile(ScalarData)),
          Import(<<"lib">>, NoAlias, TRUE, Missing)}

\* The 'vars' blocks of the configurations that are loaded, and the
\* command-line variables.
LoadVars ==
    {<<>>,
     <<[key |-> <<"K">>, val |-> <<"c">>], [key |-> <<"P">>, val |-> <<"c">>]>>,
     <<[key |-> <<"m", Dot, "name">>, val |-> <<"c">>], [key |-> <<"L">>, val |-> Marker(<<"K">>)]>>}
LoadCommandLines ==
    {<<>>,
     <<[key |-> <<"K">>, val |-> <<"k">>]>>,
     <<[key |-> <<"P">>, val |-> <<"k">>], [key |-> <<"K">>, val |-> Marker(<<"P">>)]>>}

RECURSIVE LoadConfigs(_), ImportLists(_)
\* The build configurations that import at most n files, at all depths.
LoadConfigs(n) ==
    {[vars |-> v, imports |-> imps, rules |-> BuildRuleConfigs] :
        v \in LoadVars, imps \in ImportLists(n)}
\* The 'imports' lists of at most n files, at all depths.
ImportLists(n) ==
    {<<>>} \cup
    UNION {UNION {{<<imp>> \o rest : rest \in ImportLists(n - k)} :
                  imp \in (IF k = 1 THEN ManifestImports ELSE {})
                          \cup {Import(<<"sub", Slash, BuildYml>>, <<"s">>, FALSE, YamlFile(c)) :
                                    c \in LoadConfigs(k - 1)}
                          \cup {Import(<<"lib">>, NoAlias, TRUE, YamlFile(c)) :
                                    c \in LoadConfigs(k - 1)}} :
           k \in 1..n}

\* The names given to get, get_rule and get_var.
LookupNames ==
    {<<"b">>, <<"V">>, <<"z">>, <<"s", Dot, "b">>, <<"s", Dot, "V">>,
     <<"i", Dot, "t">>, <<"s", Dot, "i", Dot, "b">>, <<"s", Dot, "i", Dot, "V">>}

VARIABLES
    fs,          \* the file system: [Files -> FileStates]
    cwd,         \* the process working directory
    configs,     \* the rule blocks of the configuration, in mapping order
    rules,       \* the mapping handed to Project.run: the Rule objects, in order
    force,       \* the force argument of Project.run
    pc,          \* "start", "loop", "commands", "returned", "raised"
    ri,          \* the position of Project.run's loop in rules
    ci,          \* the position of Rule.__execute_commands' loop in commands
    cwdAtCall,   \* the working directory when Project.run was called
    outcomes,    \* outcomes[k]: how the k-th execute call ended ("running" until then)
    trace,       \* what happened, in order: see Event
    project,     \* the root Project of a loaded project tree
    call,        \* the last call of a query of project: [op, names_patterns, tags] or [op, name]
    result,      \* what that call returned
    layers,      \* the arguments of a Project under construction: [config_vars, cl_variables]
    pvars,       \* self.vars of the Project under construction
    bpc,         \* "idle", "init", "resolve", "constructed", "raised", "running"
    vi,          \* the position of __resolve_all_variables' loop in pvars
    spawned,     \* the $(...) commands spawned so far: [key, cmd, ok]
    built,       \* self.rules of the Project under construction
    last,        \* the last call of __resolve_variable_value: [key, value, all_vars, out]
    raw,         \* the raw command string given to Command
    cmdobj,      \* the Command object: [metadata, command]
    child,       \* the spawned process: [script, pos, returncode, exited]
    outpipe,     \* the lines in the stdout pipe, not read yet
    errpipe,     \* the lines in the stderr pipe, not read yet
    ppc,         \* where Command.execute / run_command is
    exc,         \* the exception that left Command.execute
    ctree,       \* the configuration file given to Project: [path, file]
    clvars,      \* the command-line variables given to Project
    lpc,         \* where Project.__init__ is: "idle", "imports", "constructed", "raised"
    ii,          \* the position of Project.__init__'s loop in the imports
    loads,       \* what the loop did with each import: [path, loader, raised]
    argv,        \* the parsed arguments of main
    mpc,         \* where main is: "idle", "variables", "construct", "select", "shell",
                 \* "list", "run", "exited"
    exit_code,   \* the exit status of the process, NoExit while it runs
    mtrace,      \* the calls main has made, in order
    rules_dict,  \* InteractiveShell.rules_dict
    spc,         \* the state of the session: "idle", "prompt", "ended" or "raised"
    shlog        \* what each line of the session did, in order: see Dispatched

runVars == <<fs, cwd, configs, rules, force, pc, ri, ci, cwdAtCall, outcomes, trace>>
queryVars == <<project, call, result>>
buildVars == <<layers, pvars, bpc, vi, spawned, built, last>>
cmdVars == <<raw, cmdobj, child, outpipe, errpipe, ppc, exc>>
loadVars == <<ctree, clvars, lpc, ii, loads>>
mainVars == <<argv, mpc, exit_code, mtrace>>
shellVars == <<rules_dict, spc, shlog>>
useVars == <<loadVars, mainVars, shellVars>>
vars == <<runVars, queryVars, buildVars, cmdVars, useVars>>

FileSystems == [Files -> FileStates]

\* An entry of trace.  ev = "execute": execute was called on rule number rule,
\* flag is the force argument it got.  ev = "command": command number cmd of
\* that rule was spawned, flag says whether it exited 0.  ev = "check_expected":
\* the expected-files check of that rule was evaluated, flag is its result.
\* cwd is the process working directory at that moment.
Event(ev, r, c, flag) == [ev |-> ev, rule |-> r, cmd |-> c, cwd |-> cwd, flag |-> flag]

NoCall == [op |-> "none", names_patterns |-> <<>>, tags |-> <<>>]
NoResolve == [key |-> <<>>, value |-> <<>>, all_vars |-> <<>>,
              out |-> [status |-> "none", error |-> "none", value |-> <<>>, ran |-> <<>>]]

NoCommand == [metadata |-> [always_run |-> FALSE, silent |-> FALSE], command |-> <<>>]
NoChild == [script |-> <<>>, pos |-> 1, returncode |-> 0, exited |-> FALSE]
\* No Command exists.
NoCommands ==
    /\ raw = <<>>
    /\ cmdobj = NoCommand
    /\ child = NoChild
    /\ outpipe = <<>>
    /\ errpipe = <<>>
    /\ ppc = "idle"
    /\ exc = NoError

NoArgs ==
    [rules |-> <<>>, tag |-> <<>>, no_run |-> FALSE, variable |-> <<>>, force_reload |-> FALSE,
     interactive |-> FALSE]
NoExit == -1
\* No configuration file is being loaded.
NoLoad ==
    /\ ctree = [path |-> <<>>, file |-> Missing]
    /\ clvars = <<>>
    /\ lpc = "idle"
    /\ ii = 1
    /\ loads = <<>>
\* main is not running.
NoMain ==
    /\ argv = NoArgs
    /\ mpc = "idle"
    /\ exit_code = NoExit
    /\ mtrace = <<>>
\* There is no interactive session.
NoShell ==
    /\ rules_dict = <<>>
    /\ spc = "idle"
    /\ shlog = <<>>
NoUse == NoLoad /\ NoMain /\ NoShell
\* No rule is run, and no query is made.
NoRun ==
    /\ fs = NoFiles
    /\ cwd = ProjectDir
    /\ configs = <<>>
    /\ rules = <<>>
    /\ force = FALSE
    /\ pc = "start"
    /\ ri = 1
    /\ ci = 1
    /\ cwdAtCall = NoDir
    /\ outcomes = <<>>
    /\ trace = <<>>
NoQuery == call = NoCall /\ result = <<>>

\* No Project is under construction.
NoBuild ==
    /\ layers = [config_vars |-> <<>>, cl_variables |-> <<>>]
    /\ pvars = <<>>
    /\ bpc = "idle"
    /\ vi = 1
    /\ spawned = <<>>
    /\ built = <<>>
    /\ last = NoResolve

\* The state after Project construction: the rules were built from the
\* configuration against the file system of that moment; nothing has run.
InitWith(cfgs) ==
    /\ fs \in FileSystems
    /\ cwd \in Dirs
    /\ configs = cfgs
    /\ rules = [i \in 1..Len(cfgs) |-> NewRule(fs, i, RuleNames[i], cfgs[i])]
    /\ force \in BOOLEAN
    /\ pc = "start"
    /\ ri = 1
    /\ ci = 1
    /\ cwdAtCall = NoDir
    /\ outcomes = <<>>
    /\ trace = <<>>
    /\ project = NewProject(<<>>, [rules |-> <<>>, vars |-> <<>>], <<>>)
    /\ call = NoCall
    /\ result = <<>>
    /\ NoBuild
    /\ NoCommands
    /\ NoUse

\* One rule, of any declared shape.
Init == \E c \in RuleConfigs : InitWith(<<c>>)

\* A mapping of up to MaxRules rules, each with one command.
RunConfigs ==
    {c \in RuleConfigs : /\ c.required_files \in {<<>>, <<"a.c">>}
                         /\ c.expected_files \in {<<>>, <<"out">>}
                         /\ Len(c.commands) = 1
                         /\ c.working_directory = NoDir}

InitRun ==
    /\ \E n \in 0..MaxRules : \E cfgs \in [1..n -> RunConfigs] : InitWith(cfgs)
    /\ cwd = ProjectDir

\* Between construction and the run the host may change any file.
EnvChange ==
    /\ pc = "start"
    /\ \E e \in Effects : fs' = ApplyEffect(fs, e)
    /\ UNCHANGED <<cwd, configs, rules, force, pc, ri, ci, cwdAtCall, outcomes, trace, queryVars, buildVars, cmdVars, useVars>>

\* Project.run is called: the loop over rules.items() starts.
Run ==
    /\ pc = "start"
    /\ pc' = "loop"
    /\ cwdAtCall' = cwd
    /\ UNCHANGED <<fs, cwd, configs, rules, force, ri, ci, outcomes, trace, queryVars, buildVars, cmdVars, useVars>>

\* An exception leaves Rule.execute: Project.run has no handler, so it leaves
\* the loop and Project.run as well.  outs is outcomes with the failure in it.
RaiseSwallowed(outs) == pc' = "loop" /\ ri' = ri + 1 /\ outcomes' = outs
Raise(outs) == pc' = "raised" /\ ri' = ri /\ outcomes' = outs

\* Rule.execute returns: the loop goes on to the next rule.
Return(outs) == pc' = "loop" /\ ri' = ri + 1 /\ outcomes' = outs

EndWith(o) == [outcomes EXCEPT ![Len(outcomes)] = o]

\* Project.run takes the next rule and calls rule.execute(force): the
\* required-files check and the staleness decision.
ExecuteRule ==
    /\ pc = "loop"
    /\ ri <= Len(rules)
    /\ trace' = Append(trace, Event("execute", ri, 0, force))
    /\ LET entry == ExecuteEntry(fs, rules[ri], force)
       IN  CASE entry = "run" ->
                    /\ pc' = "commands"
                    /\ ci' = 1
                    /\ ri' = ri
                    /\ outcomes' = Append(outcomes, "running")
             [] entry = "Skip" ->
                    /\ Return(Append(outcomes, "Skip"))
                    /\ ci' = ci
             [] OTHER ->
                    /\ Raise(Append(outcomes, entry))
                    /\ ci' = ci
    /\ UNCHANGED <<fs, cwd, configs, rules, force, cwdAtCall, queryVars, buildVars, cmdVars, useVars>>

\* Rule.__execute_commands spawns the next command (sp.run, check=True) and
\* waits for it; a non-zero exit raises RuntimeError out of execute.
RunCommand ==
    /\ pc = "commands"
    /\ ci <= Len(rules[ri].commands)
    /\ \E e \in Effects, ok \in BOOLEAN :
        /\ fs' = ApplyEffect(fs, e)
        /\ trace' = Append(trace, Event("command", ri, ci, ok))
        /\ IF CommandFails(ok)
           THEN /\ Raise(EndWith("CommandFailed"))
                /\ ci' = ci
           ELSE /\ ci' = ci + 1
                /\ UNCHANGED <<pc, ri, outcomes>>
    /\ UNCHANGED <<cwd, configs, rules, force, cwdAtCall, queryVars, buildVars, cmdVars, useVars>>

\* Every command succeeded: execute evaluates the expected-files check.
CheckExpected ==
    /\ pc = "commands"
    /\ ci > Len(rules[ri].commands)
    /\ LET found == check_expected_files(fs, rules[ri])
       IN  /\ trace' = Append(trace, Event("check_expected", ri, 0, found))
           /\ IF found
              THEN Return(EndWith("Done"))
              ELSE Raise(EndWith("ExpectedFilesNotFound"))
    /\ UNCHANGED <<fs, cwd, configs, rules, force, ci, cwdAtCall, queryVars, buildVars, cmdVars, useVars>>

\* The loop is exhausted: Project.run returns.
RunReturn ==
    /\ pc = "loop"
    /\ ri > Len(rules)
    /\ pc' = "returned"
    /\ UNCHANGED <<fs, cwd, configs, rules, force, ri, ci, cwdAtCall, outcomes, trace, queryVars, buildVars, cmdVars, useVars>>

Next == EnvChange \/ Run \/ ExecuteRule \/ RunCommand \/ CheckExpected \/ RunReturn

Spec == Init /\ [][Next]_vars

SpecRun == InitRun /\ [][Next]_vars

\* ------------------------------------------------------ queries of a project
\* A loaded project tree; nothing runs.
InitQuery ==
    /\ project \in Projects(MaxImports, <<>>)
    /\ call = NoCall
    /\ result = <<>>
    /\ fs = NoFiles
    /\ cwd = ProjectDir
    /\ configs = <<>>
    /\ rules = <<>>
    /\ force = FALSE
    /\ pc = "start"
    /\ ri = 1
    /\ ci = 1
    /\ cwdAtCall = NoDir
    /\ outcomes = <<>>
    /\ trace = <<>>
    /\ NoBuild
    /\ NoCommands
    /\ NoUse

\* The Project after a call of one of its methods.  None of them assigns to an
\* attribute of self, of an import or of a Rule; get_all_rules and
\* get_all_vars update dict(self.rules) and dict(self.vars), which are new
\* dicts.
self_after_update_in_place(op, p) ==
    CASE op = "get_all_rules" -> [p EXCEPT !.rules = get_all_rules(p)]
      [] op = "get_all_vars" -> [p EXCEPT !.vars = get_all_vars(p)]
      [] OTHER -> p
self_after(op, p) == p

\* The calls made on a tree: the call and what it returned are recorded.
SelectRulesCall ==
    /\ \E ps \in PatternLists, ts \in TagLists :
        /\ call' = [op |-> "select_rules", names_patterns |-> ps, tags |-> ts]
        /\ result' = select_rules(project, ps, ts)
    /\ project' = self_after("select_rules", project)
    /\ UNCHANGED <<runVars, buildVars, cmdVars, useVars>>

GetAllRulesCall ==
    /\ call' = [op |-> "get_all_rules", names_patterns |-> <<>>, tags |-> <<>>]
    /\ result' = get_all_rules(project)
    /\ project' = self_after("get_all_rules", project)
    /\ UNCHANGED <<runVars, buildVars, cmdVars, useVars>>

GetAllVarsCall ==
    /\ call' = [op |-> "get_all_vars", names_patterns |-> <<>>, tags |-> <<>>]
    /\ result' = get_all_vars(project)
    /\ project' = self_after("get_all_vars", project)
    /\ UNCHANGED <<runVars, buildVars, cmdVars, useVars>>

GetRuleCall ==
    /\ \E n \in LookupNames :
        /\ call' = [op |-> "get_rule", name |-> n]
        /\ result' = get_rule(project, n)
    /\ project' = self_after("get_rule", project)
    /\ UNCHANGED <<runVars, buildVars, cmdVars, useVars>>

GetVarCall ==
    /\ \E n \in LookupNames :
        /\ call' = [op |-> "get_var", name |-> n]
        /\ result' = get_var(project, n)
    /\ project' = self_after("get_var", project)
    /\ UNCHANGED <<runVars, buildVars, cmdVars, useVars>>

GetCall ==
    /\ \E n \in LookupNames :
        /\ call' = [op |-> "get", name |-> n]
        /\ result' = get(project, n)
    /\ project' = self_after("get", project)
    /\ UNCHANGED <<runVars, buildVars, cmdVars, useVars>>

GetSummaryCall ==
    /\ call' = [op |-> "get_summary", names_patterns |-> <<>>, tags |-> <<>>]
    /\ result' = get_summary(project)
    /\ project' = self_after("get_summary", project)
    /\ UNCHANGED <<runVars, buildVars, cmdVars, useVars>>

\* Project.run on a selection: the rules are executed in order, and the first
\* execute that raises ends the run.
RunRulesCall ==
    /\ \E ps \in PatternLists :
        \E failing \in {{}} \cup {{k} : k \in Range(keys(select_rules(project, ps, <<>>)))} :
            /\ call' = [op |-> "run", names_patterns |-> ps, tags |-> <<>>]
            /\ result' = project_run(select_rules(project, ps, <<>>), failing)
    /\ project' = self_after("run", project)
    /\ UNCHANGED <<runVars, buildVars, cmdVars, useVars>>

\* The queries are pure: each behaviour of SpecQuery applies one call to the tree.
SelectRules == call = NoCall /\ SelectRulesCall
GetAllRules == call = NoCall /\ GetAllRulesCall
GetAllVars == call = NoCall /\ GetAllVarsCall
GetRule == call = NoCall /\ GetRuleCall
GetVar == call = NoCall /\ GetVarCall
Get == call = NoCall /\ GetCall
GetSummary == call = NoCall /\ GetSummaryCall
RunRules == call = NoCall /\ RunRulesCall

NextQuery ==
    \/ SelectRules \/ GetAllRules \/ GetAllVars \/ GetRule \/ GetVar \/ Get \/ GetSummary
    \/ RunRules

SpecQuery == InitQuery /\ [][NextQuery]_vars

\* Calls made one after the other, in any order and number, on the trees with
\* at most one import.
InitCalls == InitQuery /\ project \in Projects(1, <<>>)
NextCalls ==
    \/ SelectRulesCall \/ GetAllRulesCall \/ GetAllVarsCall \/ GetRuleCall \/ GetVarCall
    \/ GetCall \/ GetSummaryCall \/ RunRulesCall

SpecCalls == InitCalls /\ [][NextCalls]_vars

\* ------------------------------------------------- construction of a project
\* Project(config_file, cl_variables) is called on a configuration without
\* imports; nothing else goes on.
InitBuild ==
    /\ layers \in [config_vars : ConfigVars, cl_variables : CommandLineVars]
    /\ pvars = <<>>
    /\ bpc = "init"
    /\ vi = 1
    /\ spawned = <<>>
    /\ built = <<>>
    /\ last = NoResolve
    /\ project = NewProject(<<>>, [rules |-> <<>>, vars |-> <<>>], <<>>)
    /\ call = NoCall
    /\ result = <<>>
    /\ fs = NoFiles
    /\ cwd = ProjectDir
    /\ configs = <<>>
    /\ rules = <<>>
    /\ force = FALSE
    /\ pc = "start"
    /\ ri = 1
    /\ ci = 1
    /\ cwdAtCall = NoDir
    /\ outcomes = <<>>
    /\ trace = <<>>
    /\ NoCommands
    /\ NoUse

\* The state of the rules, the queries and the construction when none of them
\* is going on.
NoProject ==
    /\ project = NewProject(<<>>, [rules |-> <<>>, vars |-> <<>>], <<>>)
    /\ call = NoCall
    /\ result = <<>>
    /\ fs = NoFiles
    /\ cwd = ProjectDir
    /\ configs = <<>>
    /\ rules = <<>>
    /\ force = FALSE
    /\ pc = "start"
    /\ ri = 1
    /\ ci = 1
    /\ cwdAtCall = NoDir
    /\ outcomes = <<>>
    /\ trace = <<>>
    /\ NoBuild
    /\ NoUse

\* Project.__init__, the three self.vars.update calls.
LayerVariables ==
    /\ bpc = "init"
    /\ pvars' = LayerVars(layers.config_vars, layers.cl_variables)
    /\ bpc' = "resolve"
    /\ UNCHANGED <<layers, vi, spawned, built, last, runVars, queryVars, cmdVars, useVars>>

\* One turn of the loop of __resolve_all_variables: the value of the next key
\* is resolved against get_all_vars() and stored; a ValueError leaves
\* Project.__init__.
ResolveVariable ==
    /\ bpc = "resolve"
    /\ vi <= Len(pvars)
    /\ \E oracle \in Oracles :
        LET out == resolve_variable_value(pvars[vi].val, pvars, oracle)
        IN  /\ last' = [key |-> pvars[vi].key, value |-> pvars[vi].val,
                        all_vars |-> pvars, out |-> out]
            /\ spawned' = spawned \o [i \in 1..Len(out.ran) |->
                                        [key |-> pvars[vi].key, cmd |-> out.ran[i].cmd,
                                         ok |-> out.ran[i].ok]]
            /\ CASE out.status = "returned" ->
                        /\ pvars' = [pvars EXCEPT ![vi].val = out.value]
                        /\ vi' = vi + 1
                        /\ bpc' = bpc
                 [] out.status = "raised" ->
                        /\ bpc' = "raised"
                        /\ UNCHANGED <<pvars, vi>>
                 [] OTHER ->
                        /\ bpc' = "running"
                        /\ UNCHANGED <<pvars, vi>>
    /\ UNCHANGED <<layers, built, runVars, queryVars, cmdVars, useVars>>

\* Every variable is resolved: the rules of the configuration are instantiated
\* and Project.__init__ returns.
LoadRules ==
    /\ bpc = "resolve"
    /\ vi > Len(pvars)
    /\ built' = LoadedRules(BuildRuleConfigs, pvars)
    /\ bpc' = "constructed"
    /\ UNCHANGED <<layers, pvars, vi, spawned, last, runVars, queryVars, cmdVars, useVars>>

NextBuild == LayerVariables \/ ResolveVariable \/ LoadRules

SpecBuild == InitBuild /\ [][NextBuild]_vars

\* --------------------------------------------------- construction of a command
\* A raw command string is about to be given to Command.
InitCommand ==
    /\ raw \in RawCommands
    /\ cmdobj = NoCommand
    /\ child = NoChild
    /\ outpipe = <<>>
    /\ errpipe = <<>>
    /\ ppc = "new"
    /\ exc = NoError
    /\ NoProject

\* Command(raw)
Construct ==
    /\ ppc = "new"
    /\ cmdobj' = NewCommand(raw)
    /\ ppc' = "constructed"
    /\ UNCHANGED <<raw, child, outpipe, errpipe, exc, runVars, queryVars, buildVars, useVars>>

NextCommand == Construct

SpecCommand == InitCommand /\ [][NextCommand]_vars

\* ------------------------------------------------------ execution of a command
\* A Command exists; the process its execution spawns has a script and an
\* exit status.
InitProcess ==
    /\ raw \in ExecutedCommands
    /\ cmdobj = NewCommand(raw)
    /\ child \in [script : Scripts, pos : {1}, returncode : ExitCodes, exited : {FALSE}]
    /\ outpipe = <<>>
    /\ errpipe = <<>>
    /\ ppc = "constructed"
    /\ exc = NoError
    /\ NoProject

\* run_command's log argument: Command.execute passes not self.metadata.silent.
Log == ~cmdobj.metadata.silent
Spawned == ppc \notin {"idle", "new", "constructed"}

\* Command.execute calls run_command, which spawns the process (sp.Popen).
Execute ==
    /\ ppc = "constructed"
    /\ ppc' = "poll"
    /\ UNCHANGED <<raw, cmdobj, child, outpipe, errpipe, exc, runVars, queryVars, buildVars, useVars>>

\* The process writes its next line; the write blocks while the pipe is full.
ChildWrite ==
    /\ Spawned
    /\ ~child.exited
    /\ child.pos <= Len(child.script)
    /\ IF child.script[child.pos] = "out"
       THEN Len(outpipe) < PipeCap /\ outpipe' = Append(outpipe, child.pos) /\ errpipe' = errpipe
       ELSE Len(errpipe) < PipeCap /\ errpipe' = Append(errpipe, child.pos) /\ outpipe' = outpipe
    /\ child' = [child EXCEPT !.pos = @ + 1]
    /\ UNCHANGED <<raw, cmdobj, ppc, exc, runVars, queryVars, buildVars, useVars>>

\* The process exits: the write ends of its pipes are closed.
ChildExit ==
    /\ Spawned
    /\ ~child.exited
    /\ child.pos > Len(child.script)
    /\ child' = [child EXCEPT !.exited = TRUE]
    /\ UNCHANGED <<raw, cmdobj, outpipe, errpipe, ppc, exc, runVars, queryVars, buildVars, useVars>>

\* while process.poll() is None: the test that changes the position of
\* run_command (with log false and the process alive it polls again).
Poll ==
    /\ ppc = "poll"
    /\ child.exited \/ Log
    /\ ppc' = IF child.exited THEN (IF Log THEN "read_out" ELSE "check") ELSE "readline_out"
    /\ UNCHANGED <<raw, cmdobj, child, outpipe, errpipe, exc, runVars, queryVars, buildVars, useVars>>

\* process.stdout.readline(): a line, or '' at end of file; it blocks while
\* the pipe is empty and open.
ReadlineOut ==
    /\ ppc = "readline_out"
    /\ outpipe # <<>> \/ child.exited
    /\ outpipe' = IF outpipe = <<>> THEN outpipe ELSE Tail(outpipe)
    /\ ppc' = "readline_err"
    /\ UNCHANGED <<raw, cmdobj, child, errpipe, exc, runVars, queryVars, buildVars, useVars>>

\* process.stderr.readline(): the line is logged.
ReadlineErr ==
    /\ ppc = "readline_err"
    /\ errpipe # <<>> \/ child.exited
    /\ errpipe' = IF errpipe = <<>> THEN errpipe ELSE Tail(errpipe)
    /\ ppc' = "poll"
    /\ UNCHANGED <<raw, cmdobj, child, outpipe, exc, runVars, queryVars, buildVars, useVars>>

\* After the loop, with log: process.stdout.read() and process.stderr.read()
\* take what is left, and it is logged.
ReadRest ==
    /\ ppc = "read_out"
    /\ outpipe' = <<>>
    /\ errpipe' = <<>>
    /\ ppc' = "check"
    /\ UNCHANGED <<raw, cmdobj, child, exc, runVars, queryVars, buildVars, useVars>>

\* if process.returncode != 0: stderr is read and CalledProcessError raised;
\* Command.execute catches it and raises CommandExecutionError from it.
CheckReturncode ==
    /\ ppc = "check"
    /\ IF child.returncode # 0
       THEN /\ exc' = CommandExecutionError(child.returncode, errpipe)
            /\ errpipe' = <<>>
            /\ ppc' = "raised"
       ELSE /\ ppc' = "returned"
            /\ UNCHANGED <<exc, errpipe>>
    /\ UNCHANGED <<raw, cmdobj, child, outpipe, runVars, queryVars, buildVars, useVars>>

NextProcess ==
    \/ Execute \/ ChildWrite \/ ChildExit \/ Poll \/ ReadlineOut \/ ReadlineErr
    \/ ReadRest \/ CheckReturncode

SpecProcess == InitProcess /\ [][NextProcess]_vars

\* ---------------------------------------------- loading of a configuration
\* Project(config_file, cl_variables) is called on a build configuration with
\* imports: self.vars and self.imports are empty, the loop over the imports
\* is about to start.
InitLoad ==
    /\ ctree \in {[path |-> <<BuildYml>>, file |-> YamlFile(c)] : c \in LoadConfigs(MaxImports)}
    /\ clvars \in LoadCommandLines
    /\ lpc = "imports"
    /\ ii = 1
    /\ loads = <<>>
    /\ project = EmptyProject(ctree.path)
    /\ NoQuery
    /\ NoRun
    /\ NoBuild
    /\ NoCommands
    /\ NoMain
    /\ NoShell

\* A turn of the loop gave out: the load is recorded, and an exception leaves
\* Project.__init__.
ImportLoaded(out) ==
    /\ loads' = Append(loads, [path |-> out.path, loader |-> out.loader, raised |-> out.raised])
    /\ IF out.raised = "none"
       THEN project' = out.val /\ ii' = ii + 1 /\ lpc' = lpc
       ELSE lpc' = "raised" /\ UNCHANGED <<project, ii>>

\* Project.__init__ ends with out: the Project, or an exception.
InitReturned(out) ==
    IF out.raised = "none"
    THEN project' = out.val /\ lpc' = "constructed"
    ELSE lpc' = "raised" /\ UNCHANGED project

\* The next import is loaded: a manifest into self.vars, a build configuration
\* as a Project into self.imports; an exception leaves Project.__init__.
LoadImport ==
    /\ lpc = "imports"
    /\ ii <= Len(ctree.file.config.imports)
    /\ ImportLoaded(load_import(project, ctree.file.config.imports[ii], clvars))
    /\ UNCHANGED <<ctree, clvars, call, result, runVars, buildVars, cmdVars, mainVars, shellVars>>

\* The imports are loaded: the variables are layered and resolved, the rules
\* instantiated, and Project.__init__ returns.
FinishLoad ==
    /\ lpc = "imports"
    /\ ii > Len(ctree.file.config.imports)
    /\ InitReturned(finish_project(ctree.path, ctree.file.config, project, clvars))
    /\ UNCHANGED <<ctree, clvars, ii, loads, call, result, runVars, buildVars, cmdVars,
                   mainVars, shellVars>>

NextLoad == LoadImport \/ FinishLoad

SpecLoad == InitLoad /\ [][NextLoad]_vars

\* ------------------------------------------------------- the entry point
Eq == "="
\* os.environ
Environ == <<[key |-> <<"P">>, val |-> <<"env">>]>>
\* var_def.split('=', 1), or the name and os.environ.get(name, '')
FirstEq(var_def) ==
    CHOOSE i \in 1..Len(var_def) : var_def[i] = Eq /\ \A j \in 1..(i - 1) : var_def[j] # Eq
name_of(var_def) ==
    IF Eq \in Range(var_def) THEN SubSeq(var_def, 1, FirstEq(var_def) - 1) ELSE var_def
value_of(var_def) ==
    IF Eq \in Range(var_def) THEN SubSeq(var_def, FirstEq(var_def) + 1, Len(var_def))
    ELSE IF DictHas(Environ, var_def) THEN DictGet(Environ, var_def)
    ELSE <<>>

RECURSIVE parse_variables(_, _)
\* The loop of main over args.variable: variables afterwards.
parse_variables(variables, defs) ==
    IF defs = <<>> THEN variables
    ELSE parse_variables(DictSet(variables, name_of(Head(defs)), value_of(Head(defs))), Tail(defs))

\* re.fullmatch(pattern, name) raises re.error: a '*' has nothing to repeat,
\* or follows another '*'.
re_error(pattern) ==
    \E i \in 1..Len(pattern) : pattern[i] = Star /\ (i = 1 \/ pattern[i - 1] = Star)

RECURSIVE any_fullmatch(_, _)
\* any(re.fullmatch(pattern, name) for pattern in names_patterns): the
\* patterns are tried in order until one matches.
any_fullmatch(names_patterns, name) ==
    IF names_patterns = <<>> THEN "no match"
    ELSE IF re_error(Head(names_patterns)) THEN "re.error"
    ELSE IF fullmatch(Head(names_patterns), name) THEN "match"
    ELSE any_fullmatch(Tail(names_patterns), name)

\* A call of Project.select_rules: the selection, or the re.error of a pattern
\* that was tried on a name.
rules_tried(all_rules, names_patterns) ==
    {i \in 1..Len(all_rules) : any_fullmatch(names_patterns, all_rules[i].key) = "re.error"}
select_rules_call(p, names_patterns, tags) ==
    IF rules_tried(get_all_rules(p), names_patterns) # {} THEN Raised("re.error")
    ELSE Loaded(select_rules(p, names_patterns, tags))

\* The configuration files main is given: none, and configurations with two
\* rules, one of them tagged, that import nothing, a directory without
\* build.yml, or a sub-project.
MainRuleConfigs ==
    BuildRuleConfigs \o
    <<[key |-> <<"t">>,
       val |-> [tags |-> <<"t">>, required_files |-> <<>>, expected_files |-> <<>>,
                commands |-> << <<"c">> >>, working_directory |-> NoDir]]>>
MainImportLists ==
    {<<>>,
     <<Import(<<"lib">>, NoAlias, TRUE, Missing)>>,
     <<Import(<<"sub", Slash, BuildYml>>, <<"s">>, FALSE,
              YamlFile([vars |-> <<>>, imports |-> <<>>, rules |-> BuildRuleConfigs]))>>}
MainFiles ==
    {Missing} \cup
    {YamlFile([vars |-> v, imports |-> imps, rules |-> MainRuleConfigs]) :
        v \in LoadVars, imps \in MainImportLists}
\* The arguments: patterns (one of them not a regular expression), tags,
\* variable definitions and the three flags.
MainArgs ==
    [rules : {<<>>, <<<<"r">>>>, <<<<"t">>, <<Dot, Star, "r">>>>, <<<<"z">>>>, <<<<Star>>>>,
              <<<<"r">>, <<"t", Star, Star>>>>},
     tag : {<<>>, <<"t">>},
     no_run : BOOLEAN,
     variable : {<<>>, <<<<"K", Eq, "k">>>>, <<<<"P">>, <<"K", Eq, "a", Eq, "b">>>>},
     force_reload : BOOLEAN,
     interactive : BOOLEAN]

\* A call main made: the callee, its names (patterns, or rule names), and
\* whether it raised.
MainCall(callee, names, raised) == [call |-> callee, names |-> names, raised |-> raised]

\* main has parsed its arguments.
InitMain ==
    /\ argv \in MainArgs
    /\ ctree \in {[path |-> <<BuildYml>>, file |-> f] : f \in MainFiles}
    /\ mpc = "variables"
    /\ exit_code = NoExit
    /\ mtrace = <<>>
    /\ clvars = <<>>
    /\ lpc = "idle"
    /\ ii = 1
    /\ loads = <<>>
    /\ project = EmptyProject(ctree.path)
    /\ NoQuery
    /\ NoRun
    /\ NoBuild
    /\ NoCommands
    /\ NoShell

\* The loop over args.variable.
MainVariables ==
    /\ mpc = "variables"
    /\ clvars' = parse_variables(<<>>, argv.variable)
    /\ mpc' = "construct"
    /\ UNCHANGED <<argv, exit_code, mtrace, ctree, lpc, ii, loads, queryVars, runVars, buildVars,
                   cmdVars, shellVars>>

\* Project(args.config, variables) gave out: an exception is logged and the
\* process exits with 1.
ProjectReturned(out) ==
    /\ mtrace' = Append(mtrace, MainCall("Project", <<>>, out.raised # "none"))
    /\ IF out.raised # "none"
       THEN mpc' = "exited" /\ exit_code' = 1 /\ UNCHANGED project
       ELSE mpc' = "select" /\ project' = out.val /\ UNCHANGED exit_code
MainConstruct ==
    /\ mpc = "construct"
    /\ ProjectReturned(ConstructProject(ctree.path, ctree.file, clvars))
    /\ UNCHANGED <<argv, loadVars, call, result, runVars, buildVars, cmdVars, shellVars>>

\* project.select_rules(rules_patterns, tags) gave out: its exception is not
\* caught, and the interpreter exits with 1.
RulesSelected(out) ==
    /\ mtrace' = Append(mtrace, MainCall("select_rules", argv.rules, out.raised # "none"))
    /\ IF out.raised # "none"
       THEN mpc' = "exited" /\ exit_code' = 1 /\ UNCHANGED result
       ELSE /\ result' = out.val
            /\ mpc' = IF argv.interactive THEN "shell" ELSE IF argv.no_run THEN "list" ELSE "run"
            /\ UNCHANGED exit_code
MainSelect ==
    /\ mpc = "select"
    /\ RulesSelected(select_rules_call(project, argv.rules, argv.tag))
    /\ UNCHANGED <<argv, loadVars, project, call, runVars, buildVars, cmdVars, shellVars>>

\* args.interactive: the session, then sys.exit(0).
MainShell ==
    /\ mpc = "shell"
    /\ mtrace' = Append(mtrace, MainCall("cmdloop", <<>>, FALSE))
    /\ mpc' = "exited"
    /\ exit_code' = 0
    /\ UNCHANGED <<argv, loadVars, queryVars, runVars, buildVars, cmdVars, shellVars>>

\* args.no_run: the names of the selection are logged, then sys.exit(0).
MainNoRun ==
    /\ mpc = "list"
    /\ mtrace' = Append(mtrace, MainCall("list", keys(result), FALSE))
    /\ mpc' = "exited"
    /\ exit_code' = 0
    /\ UNCHANGED <<argv, loadVars, queryVars, runVars, buildVars, cmdVars, shellVars>>

\* project.run(rules, force=args.force_reload) gave out: an exception is
\* logged and the process exits with 1; otherwise main returns.
RunReturned_without_exit(out) ==
    /\ mtrace' = Append(mtrace, MainCall("run", out.executed, out.raised))
    /\ mpc' = "exited"
    /\ exit_code' = 0
RunReturned(out) ==
    /\ mtrace' = Append(mtrace, MainCall("run", out.executed, out.raised))
    /\ mpc' = "exited"
    /\ exit_code' = IF out.raised THEN 1 ELSE 0
MainRun ==
    /\ mpc = "run"
    /\ \E failing \in SUBSET Range(keys(result)) : RunReturned(project_run(result, failing))
    /\ UNCHANGED <<argv, loadVars, queryVars, runVars, buildVars, cmdVars, shellVars>>

NextMain == MainVariables \/ MainConstruct \/ MainSelect \/ MainShell \/ MainNoRun \/ MainRun

SpecMain == InitMain /\ [][NextMain]_vars

\* -------------------------------------------------- the interactive shell
\* What a do_ method did: the rules it called execute on, whether it caught an
\* exception, whether an exception left it, and its return value.
Done(executed, caught, raised, stop) ==
    [executed |-> executed, caught |-> caught, raised |-> raised, stop |-> stop]

\* InteractiveShell.do_run, the try left out.
do_run_without_try(rules_dict_, arg, failing) ==
    IF arg = <<>> THEN Done(<<>>, FALSE, FALSE, FALSE)
    ELSE IF \E i \in 1..Len(arg) : ~DictHas(rules_dict_, arg[i])
    THEN Done(<<>>, FALSE, FALSE, FALSE)
    ELSE Done(execute_each(arg, failing).executed, FALSE, execute_each(arg, failing).raised, FALSE)

\* InteractiveShell.do_run, arg.split() being arg: the rules of failing raise
\* in execute.
do_run(rules_dict_, arg, failing) ==
    IF arg = <<>> THEN Done(<<>>, FALSE, FALSE, FALSE)
    ELSE IF \E i \in 1..Len(arg) : ~DictHas(rules_dict_, arg[i])
    THEN Done(<<>>, FALSE, FALSE, FALSE)
    ELSE Done(execute_each(arg, failing).executed, execute_each(arg, failing).raised, FALSE, FALSE)

\* The projects of the sessions, and the words of the lines.
ShellProjects == Projects(0, <<>>)
ShellNames == {<<"b">>, <<"b", "x">>, <<"z">>}
RunArgs == UNION {[1..n -> ShellNames] : n \in 0..2}
Failings == {{}, {<<"b">>}, {<<"b", "x">>}}
UnknownLines == {<<"EOF">>, <<"q">>, <<"build">>}

\* A line of the session: the method cmd.Cmd gave it to, its argument, the
\* rules whose execute raises at that moment, and what the method did.
Dispatched(op, arg, failing, did) == [op |-> op, arg |-> arg, failing |-> failing, did |-> did]

\* InteractiveShell(project) is constructed and cmdloop() prompts.
InitShell ==
    /\ project \in ShellProjects
    /\ rules_dict = get_all_rules(project)
    /\ spc = "prompt"
    /\ shlog = <<>>
    /\ call = NoCall
    /\ result = <<>>
    /\ NoRun
    /\ NoBuild
    /\ NoCommands
    /\ NoLoad
    /\ NoMain

\* cmd.Cmd.onecmd: the method is called; cmdloop goes on unless it returned a
\* true value, and ends with the exception that left it.
Dispatch(op, arg, failing, did) ==
    /\ shlog' = Append(shlog, Dispatched(op, arg, failing, did))
    /\ spc' = IF did.raised THEN "raised" ELSE IF did.stop THEN "ended" ELSE "prompt"
    /\ UNCHANGED <<rules_dict, queryVars, runVars, buildVars, cmdVars, loadVars, mainVars>>

\* input() gives the next line.
Prompting == spc = "prompt" /\ Len(shlog) < MaxLines

DoRun ==
    /\ Prompting
    /\ \E arg \in RunArgs, failing \in Failings :
            Dispatch("run", arg, failing, do_run(rules_dict, arg, failing))
\* do_list, do_info, do_vars and do_summary print and return None.
DoList ==
    /\ Prompting
    /\ Dispatch("list", <<>>, {}, Done(<<>>, FALSE, FALSE, FALSE))
DoInfo ==
    /\ Prompting
    /\ \E arg \in ShellNames : Dispatch("info", <<arg>>, {}, Done(<<>>, FALSE, FALSE, FALSE))
DoVars ==
    /\ Prompting
    /\ \E arg \in {<<>>, <<<<"V">>>>} : Dispatch("vars", arg, {}, Done(<<>>, FALSE, FALSE, FALSE))
DoSummary ==
    /\ Prompting
    /\ Dispatch("summary", <<>>, {}, Done(<<>>, FALSE, FALSE, FALSE))
\* do_exit, and do_quit which returns self.do_exit(arg): True.
DoExit ==
    /\ Prompting
    /\ \E op \in {"exit", "quit"} : Dispatch(op, <<>>, {}, Done(<<>>, FALSE, FALSE, TRUE))
\* default(line): do_exit is called for 'EOF' and 'q', its value is dropped.
Default ==
    /\ Prompting
    /\ \E line \in UnknownLines : Dispatch("default", <<line>>, {}, Done(<<>>, FALSE, FALSE, FALSE))
\* emptyline() returns False.
EmptyLine ==
    /\ Prompting
    /\ Dispatch("emptyline", <<>>, {}, Done(<<>>, FALSE, FALSE, FALSE))

NextShell == DoRun \/ DoList \/ DoInfo \/ DoVars \/ DoSummary \/ DoExit \/ Default \/ EmptyLine

SpecShell == InitShell /\ [][NextShell]_vars

\* ------------------------------------------------- vocabulary of the claims
\* This step is a call of Rule.execute (on rules[ri]).
Called == Len(trace') = Len(trace) + 1 /\ trace'[Len(trace')].ev = "execute"
\* This step is the evaluation of the expected-files check (of rules[ri]).
CheckedExpected == Len(trace') = Len(trace) + 1 /\ trace'[Len(trace')].ev = "check_expected"

RequiredSet(r) == Range(rules[r].required_files)
ExpectedSet(r) == Range(rules[r].expected_files)
AllPresent(S) == \A f \in S : fs[f].exists
Mtimes(S) == {fs[f].mtime : f \in S}
HaveMaxima(r) == RequiredSet(r) # {} /\ ExpectedSet(r) # {}

\* Of rule number r, on the file system as it is now.
RequiredNewer(r) ==
    HaveMaxima(r) /\ MaxOf(Mtimes(RequiredSet(r))) > MaxOf(Mtimes(ExpectedSet(r)))
TiedTimes(r) ==
    /\ AllPresent(ExpectedSet(r))
    /\ HaveMaxima(r)
    /\ MaxOf(Mtimes(RequiredSet(r))) = MaxOf(Mtimes(ExpectedSet(r)))
IsStale(r) ==
    ExpectedSet(r) = {} \/ ~AllPresent(ExpectedSet(r)) \/ RequiredNewer(r)
IsUpToDate(r) == ~IsStale(r)

\* The calls of execute, in order; the k-th one ends as outcomes[k].
ExecEvents == SelectSeq(trace, LAMBDA e : e.ev = "execute")
\* The commands of rule number r spawned among the first n events.
CommandEvents(r, n) ==
    SelectSeq(SubSeq(trace, 1, n), LAMBDA e : e.ev = "command" /\ e.rule = r)
ExpectedChecks(r) == {p \in 1..Len(trace) : trace[p].ev = "check_expected" /\ trace[p].rule = r}
\* Which call of execute event number p belongs to.
CallOf(p) == Cardinality({q \in 1..p : trace[q].ev = "execute"})
LastOutcome == outcomes[Len(outcomes)]
Failures == {"MissingRequiredFiles", "ValueError", "CommandFailed", "ExpectedFilesNotFound"}

\* 'working-directory' of the rule block, the project root when absent.
WorkingDirectory(config) ==
    IF config.working_directory = NoDir THEN ProjectDir ELSE config.working_directory

\* ------------------------------------------------------------------ claims

\* C1: with force = False and every required file present, the commands of
\* the rule run iff it declares no expected file, or an expected file is
\* absent, or the newest required file is strictly newer than the newest
\* expected file; with the two maxima equal the rule is skipped.
C1_StalenessDecision ==
    [][(Called /\ ~force /\ AllPresent(RequiredSet(ri)))
        => /\ (pc' = "commands") <=> IsStale(ri)
           /\ TiedTimes(ri) => (pc' = "loop" /\ outcomes'[Len(outcomes')] = "Skip")]_vars

\* A rule with two required files was skipped on a tie of the two maxima.
C1_Witness ==
    /\ pc = "returned"
    /\ ~force
    /\ outcomes = <<"Skip">>
    /\ Cardinality(RequiredSet(1)) = 2
    /\ Cardinality(Mtimes(RequiredSet(1))) = 2
    /\ TiedTimes(1)

\* C2: with every required file present, an up-to-date rule without force is
\* skipped: execute returns, no command is spawned and the expected-files
\* check is not evaluated; a stale or forced rule goes on to its commands, and
\* by the time the expected-files check is evaluated every declared command
\* was spawned exactly once, in declared order.
C2_SkipOrRunAll ==
    /\ [][(Called /\ AllPresent(RequiredSet(ri)))
            => /\ (~force /\ IsUpToDate(ri))
                    => (pc' = "loop" /\ ri' = ri + 1 /\ outcomes'[Len(outcomes')] = "Skip")
               /\ (force \/ IsStale(ri)) => pc' = "commands"]_vars
    /\ [](\A k \in 1..Len(outcomes) :
            LET r == ExecEvents[k].rule
            IN  /\ outcomes[k] = "Skip"
                    => CommandEvents(r, Len(trace)) = <<>> /\ ExpectedChecks(r) = {}
                /\ outcomes[k] \in {"Done", "ExpectedFilesNotFound"} => ExpectedChecks(r) # {}
                /\ \A p \in ExpectedChecks(r) :
                    LET before == CommandEvents(r, p - 1)
                    IN  /\ CommandEvents(r, Len(trace)) = before
                        /\ Len(before) = Len(rules[r].commands)
                        /\ \A i \in 1..Len(before) : before[i].cmd = i)

\* C3: when a required file is absent at the call, execute raises the
\* missing-required-files error, with or without force, and spawns no command.
C3_MissingRequiredFails ==
    /\ [][(Called /\ ~AllPresent(RequiredSet(ri)))
            => (pc' = "raised" /\ outcomes'[Len(outcomes')] = "MissingRequiredFiles")]_vars
    /\ [](\A k \in 1..Len(outcomes) :
            outcomes[k] = "MissingRequiredFiles"
                => /\ CommandEvents(ExecEvents[k].rule, Len(trace)) = <<>>
                   /\ ExpectedChecks(ExecEvents[k].rule) = {})

\* A forced rule with commands failed on a file that the pattern had matched
\* when the rule was constructed.
C3_Witness ==
    /\ pc = "raised"
    /\ force
    /\ outcomes = <<"MissingRequiredFiles">>
    /\ configs[1].required_files = <<"*.c">>
    /\ rules[1].required_files # <<>>
    /\ rules[1].commands # <<>>

C5_ExpectedFilesChecked ==
    [][CheckedExpected
        => /\ (outcomes'[Len(outcomes')] = "Done") <=> AllPresent(ExpectedSet(ri))
           /\ AllPresent(ExpectedSet(ri)) => pc' = "loop"
           /\ ~AllPresent(ExpectedSet(ri))
                => (pc' = "raised" /\ outcomes'[Len(outcomes')] = "ExpectedFilesNotFound")
           /\ Len(CommandEvents(ri, Len(trace))) = Len(rules[ri].commands)
           /\ \A i \in 1..Len(rules[ri].commands) : CommandEvents(ri, Len(trace))[i].flag]_vars

\* Both commands succeeded and the rule failed for a missing expected file,
\* another expected file being there.
C5_Witness ==
    /\ pc = "raised"
    /\ outcomes = <<"ExpectedFilesNotFound">>
    /\ Len(CommandEvents(1, Len(trace))) = 2
    /\ \E f \in ExpectedSet(1) : fs[f].exists

\* C6: every execution ends as Skip, Done, a missing-required-files error, a
\* command failure or an expected-files-not-found error: the staleness
\* decision never raises.
C6_TerminalOutcomes ==
    \A k \in 1..Len(outcomes) :
        outcomes[k] \in {"running", "Skip", "Done", "MissingRequiredFiles",
                         "CommandFailed", "ExpectedFilesNotFound"}

\* C7: every command is spawned with the rule's working directory as the
\* process working directory, and once the run is over the process is back in
\* the directory it was called from.
C7_WorkingDirectory ==
    /\ \A p \in 1..Len(trace) :
        trace[p].ev = "command" => trace[p].cwd = WorkingDirectory(configs[trace[p].rule])
    /\ pc \in {"returned", "raised"} => cwd = cwdAtCall

\* C8: Project.run calls execute(force) on the rules in mapping order, each
\* once; it returns only after all of them; the first execution that raises
\* is the last call: the error leaves Project.run.
C8_RunAbortsOnFirstFailure ==
    /\ Len(ExecEvents) = Len(outcomes)
    /\ \A k \in 1..Len(ExecEvents) : ExecEvents[k].rule = k /\ ExecEvents[k].flag = force
    /\ pc = "returned"
        => /\ Len(ExecEvents) = Len(rules)
           /\ \A k \in 1..Len(outcomes) : outcomes[k] \in {"Skip", "Done"}
    /\ \A k \in 1..Len(outcomes) :
        outcomes[k] \in Failures => (k = Len(outcomes) /\ pc = "raised")
    /\ pc = "raised" => (outcomes # <<>> /\ LastOutcome \in Failures)

\* The second of three rules failed after the first was done.
C8_Witness ==
    /\ pc = "raised"
    /\ Len(rules) = 3
    /\ Len(outcomes) = 2
    /\ outcomes[1] = "Done"
    /\ outcomes[2] = "CommandFailed"

\* --------------------------------------- vocabulary of the claims on queries
RECURSIVE Atoms(_)
\* A pattern as a sequence of atoms: a character (or '.'), starred or not.
Atoms(p) ==
    IF p = <<>> THEN <<>>
    ELSE IF Len(p) >= 2 /\ p[2] = Star
         THEN <<[ch |-> p[1], star |-> TRUE]>> \o Atoms(SubSeq(p, 3, Len(p)))
         ELSE <<[ch |-> p[1], star |-> FALSE]>> \o Atoms(Tail(p))

RECURSIVE SumTo(_, _)
SumTo(cnt, i) == IF i = 0 THEN 0 ELSE cnt[i] + SumTo(cnt, i - 1)

\* The whole of s is in the language of pattern p: s splits into one piece
\* per atom, a piece of any length for a starred atom and of length one
\* otherwise, every character of a piece being the atom's ('.' is any).
InLanguage(p, s) ==
    LET at == Atoms(p)
        n == Len(at)
    IN  \E cnt \in [1..n -> 0..Len(s)] :
            /\ SumTo(cnt, n) = Len(s)
            /\ \A i \in 1..n :
                /\ ~at[i].star => cnt[i] = 1
                /\ \A j \in (SumTo(cnt, i - 1) + 1)..SumTo(cnt, i) :
                    at[i].ch = Dot \/ s[j] = at[i].ch

IsLiteral(p) == \A i \in 1..Len(p) : p[i] \notin {Dot, Star}

RECURSIVE Nodes(_)
\* The projects of the tree under p, each with the alias path that leads to it.
Nodes(p) ==
    {[path |-> <<>>, proj |-> p]} \cup
    UNION {{[path |-> <<p.imports[i].key>> \o n.path, proj |-> n.proj] :
                n \in Nodes(p.imports[i].val)} :
           i \in 1..Len(p.imports)}

RECURSIVE QualifiedKey(_, _)
\* a1.a2. ... .an.name
QualifiedKey(path, name) ==
    IF path = <<>> THEN name ELSE Head(path) \o <<Dot>> \o QualifiedKey(Tail(path), name)

\* The entries (rules when kind = "rules", variables when kind = "vars") of
\* the tree: [key, val], key being the qualified key.
Entries(kind) ==
    UNION {{[node |-> n.path, at |-> i,
             key |-> QualifiedKey(n.path, IF kind = "rules" THEN n.proj.rules[i].key
                                                             ELSE n.proj.vars[i].key),
             val |-> IF kind = "rules" THEN n.proj.rules[i].val ELSE n.proj.vars[i].val] :
                i \in 1..Len(IF kind = "rules" THEN n.proj.rules ELSE n.proj.vars)} :
           n \in Nodes(project)}
CallKind == IF call.op = "get_all_rules" THEN "rules" ELSE "vars"

\* C9: select_rules returns exactly the entries of get_all_rules whose name
\* is, as a whole, in the language of one of the patterns (or there is no
\* pattern) and whose rule has one of the tags (or there is no tag); with
\* literal patterns only the selected names are the patterns themselves.
C9_SelectRules ==
    call.op = "select_rules" =>
        LET all == get_all_rules(project)
            Wanted(k) ==
                /\ call.names_patterns = <<>>
                   \/ \E i \in 1..Len(call.names_patterns) : InLanguage(call.names_patterns[i], k)
                /\ call.tags = <<>>
                   \/ \E t \in Range(call.tags) : t \in Range(DictGet(all, k).tags)
        IN  /\ DictKeys(result) = {k \in DictKeys(all) : Wanted(k)}
            /\ Len(result) = Cardinality(DictKeys(result))
            /\ \A k \in DictKeys(result) : DictGet(result, k) = DictGet(all, k)
            /\ (call.names_patterns # <<>> /\ \A i \in 1..Len(call.names_patterns) :
                                                IsLiteral(call.names_patterns[i]))
                    => DictKeys(result) \subseteq Range(call.names_patterns)

\* The pattern b selected b alone out of a namespace that also holds bx and
\* s.b.
C9_Witness ==
    /\ call.op = "select_rules"
    /\ call.names_patterns = <<<<"b">>>>
    /\ call.tags = <<>>
    /\ DictKeys(result) = {<<"b">>}
    /\ {<<"b", "x">>, <<"s", Dot, "b">>} \subseteq DictKeys(get_all_rules(project))

LocalLookup(op, p, name) ==
    IF op \in {"get_rule", "get"} /\ DictHas(p.rules, name) THEN Found(DictGet(p.rules, name))
    ELSE IF op \in {"get_var", "get"} /\ DictHas(p.vars, name) THEN Found(DictGet(p.vars, name))
    ELSE KeyError("not found")

RECURSIVE Resolved(_, _, _)
\* The resolution of a dotted name: through the import its first segment
\* names, if there is one, and as a local name, dots included, otherwise.
Resolved(op, p, name) ==
    IF Dot \in Range(name) /\ DictHas(p.imports, SplitOnce(name)[1])
    THEN Resolved(op, DictGet(p.imports, SplitOnce(name)[1]), SplitOnce(name)[2])
    ELSE LocalLookup(op, p, name)

IsLookup == call.op \in {"get_rule", "get_var", "get"}

\* C11: get_rule, get_var and get look a dotted name up in the child project
\* when its first segment is an import alias, and as a local name, dots
\* included, otherwise; so a local variable stored under a dotted name whose
\* first segment is no alias is returned by get_var.
C11_DottedNameLookup ==
    IsLookup =>
        LET expected == Resolved(call.op, project, call.name)
        IN  /\ result.raised = expected.raised
            /\ ~expected.raised => result.val = expected.val

\* ------------------------------------- vocabulary of the construction claims
\* The layer that decides the value of key k, highest priority first.
Winner(k) ==
    IF DictHas(layers.cl_variables, k) THEN DictGet(layers.cl_variables, k)
    ELSE IF DictHas(Builtins, k) THEN DictGet(Builtins, k)
    ELSE DictGet(layers.config_vars, k)
LayerKeys ==
    DictKeys(layers.config_vars) \cup DictKeys(Builtins) \cup DictKeys(layers.cl_variables)
\* A value that resolution has nothing to do on.
IsPlain(value) == "$" \notin Range(value)

\* The keys a string may refer to.
AllKeys == VarKeys \cup {<<"U">>}
RECURSIVE Count(_, _)
\* The number of occurrences of sub in s.
Count(s, sub) ==
    IF ~Contains(s, sub) THEN 0
    ELSE 1 + Count(SubSeq(s, Index(s, sub, 1) + Len(sub), Len(s)), sub)
\* The keys value refers to.
Refs(value) == {k \in AllKeys : Contains(value, Marker(k))}
\* The keys of V that key k of V refers to, directly and through others.
RECURSIVE Reach(_, _, _)
Reach(V, K, n) ==
    IF n = 0 THEN K
    ELSE Reach(V, K \cup UNION {Refs(DictGet(V, k)) \cap DictKeys(V) : k \in K}, n - 1)
RefsBelow(V, k) == Reach(V, Refs(DictGet(V, k)) \cap DictKeys(V), Len(V))
Acyclic(V) == \A k \in DictKeys(V) : k \notin RefsBelow(V, k)
Resolving == last.out.status # "none"

C15_Idempotent ==
    (Resolving /\ last.out.status = "returned") =>
        \A oracle \in Oracles :
            LET again == resolve_variable_value(last.out.value, last.all_vars, oracle)
            IN  again.status = "returned" /\ again.value = last.out.value /\ again.ran = <<>>

\* A resolution that replaced a reference and ran a command, and returned a
\* string that still has a reference in it.
C15_Witness ==
    /\ last.out.status = "returned"
    /\ last.out.value # last.value
    /\ last.out.ran # <<>>
    /\ ~IsPlain(last.out.value)

RECURSIVE LeadingDirectives(_)
LeadingDirectives(tokens) ==
    IF tokens = <<>> \/ Head(tokens)[1] # At THEN <<>>
    ELSE <<Head(tokens)>> \o LeadingDirectives(Tail(tokens))
RawTokens == Split(raw)
Remaining == SubSeq(RawTokens, Len(LeadingDirectives(RawTokens)) + 1, Len(RawTokens))
Constructed == ppc = "constructed"

RECURSIVE LeadingPlus(_)
\* The leading tokens of the raw command among +silent and +always.
LeadingPlus(tokens) ==
    IF tokens = <<>> \/ Head(tokens) \notin {<<"+", "silent">>, <<"+", "always">>} THEN <<>>
    ELSE <<Head(tokens)>> \o LeadingPlus(Tail(tokens))

\* C18: a raw command that begins with +silent gives a silent Command, one
\* that begins with +always an always-run Command, +always +silent both; the
\* command text is what follows these tokens.
C18_PlusDirectives ==
    Constructed =>
        /\ <<"+", "silent">> \in Range(LeadingPlus(RawTokens)) => cmdobj.metadata.silent
        /\ <<"+", "always">> \in Range(LeadingPlus(RawTokens)) => cmdobj.metadata.always_run
        /\ Split(cmdobj.command)
            = SubSeq(RawTokens, Len(LeadingPlus(RawTokens)) + 1, Len(RawTokens))

\* The command of a rule carries the always-run directive.
IsAlwaysRun(cmd) == NewCommand(RawCommandOf(cmd)).metadata.always_run

\* C19: once the execution of a rule is over, every command flagged
\* always-run that comes after a command that failed has been spawned.
C19_AlwaysRunAfterFailure ==
    pc \in {"raised", "returned"} =>
        \A p \in 1..Len(trace) :
            (trace[p].ev = "command" /\ ~trace[p].flag) =>
                \A j \in (trace[p].cmd + 1)..Len(rules[trace[p].rule].commands) :
                    IsAlwaysRun(rules[trace[p].rule].commands[j]) =>
                        \E q \in (p + 1)..Len(trace) :
                            /\ trace[q].ev = "command"
                            /\ trace[q].rule = trace[p].rule
                            /\ trace[q].cmd = j

\* The stderr lines the process has written.
ErrWritten ==
    SelectSeq([i \in 1..(child.pos - 1) |-> i], LAMBDA i : child.script[i] = "err")

\* C20: the error that leaves the execution of a command whose process exited
\* non-zero has the exit status of the process and the text it wrote to its
\* stderr, with the output streamed or not.
C20_ErrorCarriesStderr ==
    /\ ppc = "raised" => (exc.returncode = child.returncode /\ exc.stderr = ErrWritten)
    /\ (ppc \in {"raised", "returned"}) => ((ppc = "raised") <=> (child.returncode # 0))

\* ---------------------------------------- vocabulary of the later claims
\* Two variables of the layered mapping V that refer to each other and to
\* nothing else, the other variables of V being plain text.
IsTwoCycle(V, k1, k2) ==
    /\ k1 # k2
    /\ DictHas(V, k1) /\ DictHas(V, k2)
    /\ DictGet(V, k1) = Marker(k2)
    /\ DictGet(V, k2) = Marker(k1)
    /\ \A k \in DictKeys(V) \ {k1, k2} : IsPlain(DictGet(V, k))
Layered == LayerVars(layers.config_vars, layers.cl_variables)

\* C23: the construction of a Project with two variables that refer to each
\* other, declared in either order, neither raises nor goes on for ever, and
\* once it is over each of the two holds the reference to one of them.
C23_TwoCycleTerminates ==
    \A k1, k2 \in VarKeys :
        IsTwoCycle(Layered, k1, k2) =>
            /\ bpc \notin {"raised", "running"}
            /\ Resolving => last.out.status = "returned"
            /\ bpc = "constructed" =>
                /\ DictGet(pvars, k1) \in {Marker(k1), Marker(k2)}
                /\ DictGet(pvars, k2) \in {Marker(k1), Marker(k2)}

\* The cycle of A and B, A declared first: the construction is over and both
\* hold the reference to A.
C23_Witness ==
    /\ bpc = "constructed"
    /\ layers.config_vars = <<[key |-> <<"A">>, val |-> Marker(<<"B">>)],
                              [key |-> <<"B">>, val |-> Marker(<<"A">>)]>>
    /\ DictGet(pvars, <<"A">>) = Marker(<<"A">>)
    /\ DictGet(pvars, <<"B">>) = Marker(<<"A">>)

\* A list of the configuration made of patterns only.
PatternOnly(items) == items # <<>> /\ \A i \in 1..Len(items) : is_pattern(items[i])
\* The expected-files patterns of rule number r matched nothing when the rule
\* was constructed.
MatchedNothing(r) == PatternOnly(configs[r].expected_files) /\ rules[r].expected_files = <<>>

\* C30: the lists of a rule are those of its construction whatever happens to
\* the files afterwards; a rule whose expected-files patterns matched nothing
\* then has no expected file: with its required files present every execute
\* goes on to the commands, and its expected-files check succeeds.
C30_ListsFixedAtConstruction ==
    /\ [][rules' = rules]_vars
    /\ [][(Called /\ MatchedNothing(ri) /\ AllPresent(RequiredSet(ri))) => pc' = "commands"]_vars
    /\ [][(CheckedExpected /\ MatchedNothing(ri))
            => (pc' = "loop" /\ outcomes'[Len(outcomes')] = "Done")]_vars

\* Without force, a rule whose expected pattern matched nothing at construction
\* ran its commands and was done, two files that match the pattern being there.
C30_Witness ==
    /\ pc = "returned"
    /\ ~force
    /\ outcomes = <<"Done">>
    /\ configs[1].expected_files = <<"*.c">>
    /\ rules[1].expected_files = <<>>
    /\ rules[1].commands # <<>>
    /\ fs["a.c"].exists /\ fs["b.c"].exists

\* The process is blocked in a write: the pipe of its next line is full.
ChildBlocked ==
    /\ Spawned
    /\ ~child.exited
    /\ child.pos <= Len(child.script)
    /\ IF child.script[child.pos] = "out" THEN Len(outpipe) >= PipeCap ELSE Len(errpipe) >= PipeCap
\* run_command waits: for the exit of the process, without reading, or for a
\* line on a pipe that is empty.
ParentWaits ==
    \/ ppc = "poll" /\ ~Log /\ ~child.exited
    \/ ppc = "readline_out" /\ outpipe = <<>> /\ ~child.exited
    \/ ppc = "readline_err" /\ errpipe = <<>> /\ ~child.exited

\* C28: run_command never waits for the process, or for a line of one pipe,
\* while the process is blocked writing to a pipe that is full; so it always
\* gets to return or raise, with the output streamed or not.
C28_NoPipeDeadlock == ~(ChildBlocked /\ ParentWaits)

\* This step loaded a manifest into self.vars.
ManifestLoaded ==
    /\ Len(loads') = Len(loads) + 1
    /\ loads'[Len(loads')].loader = "load_config_file"
    /\ loads'[Len(loads')].raised = "none"
\* The import of this step, the flattened entries of its manifest, and its alias.
ThisImport == ctree.file.config.imports[ii]
ThisEntries == flatten(load_project_file(ThisImport.path, ThisImport.file).val, <<>>)
ThisAlias == alias_of(ThisImport, ThisImport.path)
Scalar(v) == v.kind \in {"str", "int", "bool", "none"}
ScalarOrListOfScalars(v) ==
    Scalar(v) \/ (v.kind = "list" /\ \A i \in 1..Len(v.items) : Scalar(v.items[i]))

\* C21: the import of a manifest creates a variable only for a flattened
\* entry whose value is a scalar or a list of scalars, and names it
\* <alias>.<key>; an entry with any other value creates no variable.
C21_OnlyScalarsImported ==
    [][ManifestLoaded =>
        /\ \A k \in DictKeys(project'.vars) \ DictKeys(project.vars) :
                \E i \in 1..Len(ThisEntries) :
                    /\ k = ThisAlias \o <<Dot>> \o ThisEntries[i].key
                    /\ ScalarOrListOfScalars(ThisEntries[i].val)
        /\ \A i \in 1..Len(ThisEntries) :
                ~ScalarOrListOfScalars(ThisEntries[i].val)
                    => ~DictHas(project'.vars, ThisAlias \o <<Dot>> \o ThisEntries[i].key)]_vars

LoaderChosen(i) == loads[i].loader # "none"
\* The file name of a path is exactly that of a manifest.
IsManifestName(path) == basename(path) \in {<<PyprojectToml>>, <<PackageJson>>}

\* C25: a path is loaded as a manifest exactly when its file name is
\* pyproject.toml or package.json, in this case and with nothing before or
\* after it.
C25_ExactManifestName ==
    \A i \in 1..Len(loads) :
        LoaderChosen(i) => (loads[i].loader = "load_config_file" <=> IsManifestName(loads[i].path))

\* main has ended: the process has an exit status.
Exited == mpc = "exited"
\* main called c; the call raised.
MainCalled(c) == \E i \in 1..Len(mtrace) : mtrace[i].call = c
CallRaised(c) == \E i \in 1..Len(mtrace) : mtrace[i].call = c /\ mtrace[i].raised
\* The names of the selection were logged, and nothing was called after that.
Listed == mtrace # <<>> /\ mtrace[Len(mtrace)] = MainCall("list", keys(result), FALSE)

\* C22 as stated: the exit status is 1 when the construction of the Project
\* or Project.run raised and 0 otherwise; with --no-run and a loaded project
\* the selection is listed, the status is 0 and Project.run is not called;
\* Project.run is not called after a failed load.
C22_ExitStatus ==
    Exited =>
        /\ exit_code = IF CallRaised("Project") \/ CallRaised("run") THEN 1 ELSE 0
        /\ (argv.no_run /\ ~CallRaised("Project")) =>
                (Listed /\ exit_code = 0 /\ ~MainCalled("run"))
        /\ CallRaised("Project") => ~MainCalled("run")

\* C22, amended: the exit status is 1 when the construction of the Project,
\* select_rules or Project.run raised and 0 otherwise; with --no-run, without
\* --interactive, a loaded project and a selection made, the selection is
\* listed and the status is 0; Project.run is never called with --no-run,
\* with --interactive, or after a failed load or selection.
C22_ExitStatusWithSelection ==
    Exited =>
        /\ exit_code = IF CallRaised("Project") \/ CallRaised("select_rules") \/ CallRaised("run")
                       THEN 1 ELSE 0
        /\ (argv.no_run /\ ~argv.interactive /\ ~CallRaised("Project")
                /\ ~CallRaised("select_rules")) => (Listed /\ exit_code = 0)
        /\ (argv.no_run \/ argv.interactive \/ CallRaised("Project") \/ CallRaised("select_rules"))
                => ~MainCalled("run")
        /\ CallRaised("Project") => Len(mtrace) = 1

\* With --no-run and a pattern that is not a regular expression, the project
\* was loaded, select_rules raised, nothing was listed and the status is 1.
C22_Witness ==
    /\ Exited
    /\ argv.no_run
    /\ ~argv.interactive
    /\ MainCalled("Project")
    /\ ~CallRaised("Project")
    /\ CallRaised("select_rules")
    /\ ~MainCalled("list")
    /\ exit_code = 1

\* Line number i of the session is a run whose names are all rules.
IsRun(i) ==
    /\ shlog[i].op = "run"
    /\ shlog[i].arg # <<>>
    /\ \A j \in 1..Len(shlog[i].arg) : DictHas(rules_dict, shlog[i].arg[j])
\* A rule named on line i raises in execute.
SomeRaise(i) == \E j \in 1..Len(shlog[i].arg) : shlog[i].arg[j] \in shlog[i].failing
\* The names of line i up to the first whose execute raises, all of them when
\* none does.
UpToFirstRaise(i) ==
    LET arg == shlog[i].arg
        raising == {j \in 1..Len(arg) : arg[j] \in shlog[i].failing}
    IN  IF raising = {} THEN arg
        ELSE SubSeq(arg, 1, CHOOSE j \in raising : \A k \in raising : j <= k)

\* C26: a run line calls execute on its rules in the order given, up to and
\* including the first that raises; the exception is caught in do_run and none
\* leaves it, the rules after it are not executed, and the session is not
\* ended: it prompts again unless it has reached its last line.
C26_RunCatchesAndContinues ==
    \A i \in 1..Len(shlog) :
        IsRun(i) =>
            /\ shlog[i].did.executed = UpToFirstRaise(i)
            /\ shlog[i].did.caught = SomeRaise(i)
            /\ ~shlog[i].did.raised
            /\ ~shlog[i].did.stop
            /\ i = Len(shlog) => spc = "prompt"

\* A run of two rules whose first raised executed only that one, and the next
\* line, a run of both, executed both.
C26_Witness ==
    /\ Len(shlog) = 2
    /\ IsRun(1)
    /\ shlog[1].arg = <<<<"b">>, <<"b", "x">>>>
    /\ shlog[1].did.executed = <<<<"b">>>>
    /\ shlog[1].did.caught
    /\ IsRun(2)
    /\ shlog[2].arg = <<<<"b">>, <<"b", "x">>>>
    /\ shlog[2].did.executed = shlog[2].arg

RECURSIVE TreeRules(_), ImportedRules(_)
\* The rules of a tree: those of the project in declaration order, then those
\* of each import in import order.
TreeRules(p) == [i \in 1..Len(p.rules) |-> p.rules[i].val] \o ImportedRules(p.imports)
ImportedRules(imports) ==
    IF imports = <<>> THEN <<>>
    ELSE TreeRules(Head(imports).val) \o ImportedRules(Tail(imports))
RankOf(p, rule) == CHOOSE i \in 1..Len(TreeRules(p)) : TreeRules(p)[i] = rule
InTreeOrder(p, selected) ==
    \A i, j \in 1..Len(selected) :
        i < j => RankOf(p, selected[i].val) < RankOf(p, selected[j].val)

RECURSIVE TreeKeys(_), ImportedKeys(_)
\* The qualified keys of the rules of a tree, in that order.
TreeKeys(p) == keys(p.rules) \o ImportedKeys(p.imports)
ImportedKeys(imports) ==
    IF imports = <<>> THEN <<>>
    ELSE [i \in 1..Len(TreeKeys(Head(imports).val)) |->
            Head(imports).key \o <<Dot>> \o TreeKeys(Head(imports).val)[i]]
         \o ImportedKeys(Tail(imports))
\* The first occurrences of the elements of s, in order.
FirstOccurrences(s) ==
    LET firsts == {i \in 1..Len(s) : \A j \in 1..(i - 1) : s[j] # s[i]}
        nth(n) == CHOOSE i \in firsts : Cardinality({j \in firsts : j < i}) = n - 1
    IN  [n \in 1..Cardinality(firsts) |-> nth(n)]
KeysByFirstOccurrence(p) ==
    [n \in 1..Len(FirstOccurrences(TreeKeys(p))) |-> TreeKeys(p)[FirstOccurrences(TreeKeys(p))[n]]]
\* A name of a rule is also the qualified key of another rule of the tree.
KeysCollide(p) == Len(FirstOccurrences(TreeKeys(p))) < Len(TreeKeys(p))
\* The sequences with the elements of s in another order.
Reorderings(s) ==
    {[i \in 1..Len(s) |-> s[f[i]]] :
        f \in {g \in [1..Len(s) -> 1..Len(s)] : \A i, j \in 1..Len(s) : g[i] = g[j] => i = j}}
OrderOfArgumentsIrrelevant ==
    \A ps \in Reorderings(call.names_patterns), ts \in Reorderings(call.tags) :
        select_rules(project, ps, ts) = result
InOrderOfGetAllRules ==
    result = SelectSeq(get_all_rules(project), LAMBDA item : item \in Range(result))

\* C29 as stated: the selection is in the order of get_all_rules, which is
\* the rules of the project in declaration order, then those of each import
\* in import order; the order of the patterns and of the tags does not matter.
C29_SelectionOrder ==
    call.op = "select_rules" =>
        /\ InOrderOfGetAllRules
        /\ InTreeOrder(project, result)
        /\ OrderOfArgumentsIrrelevant

\* C29, amended: the selection is in the order of get_all_rules, the order
\* of the patterns and of the tags does not matter, and the keys of
\* get_all_rules are in the order of their first occurrence among the names
\* of the project followed by the qualified keys of each import; that is the
\* rules of the project, then those of each import, when no name of a rule is
\* also the qualified key of another.
C29_SelectionOrderByKey ==
    call.op = "select_rules" =>
        /\ InOrderOfGetAllRules
        /\ keys(get_all_rules(project)) = KeysByFirstOccurrence(project)
        /\ ~KeysCollide(project) => InTreeOrder(project, result)
        /\ OrderOfArgumentsIrrelevant

\* The patterns b.x and b, given in that order, selected b then b.x in a
\* project with an import.
C29_Witness ==
    /\ call.op = "select_rules"
    /\ call.names_patterns = <<<<"b", "x">>, <<"b">>>>
    /\ keys(result) = <<<<"b">>, <<"b", "x">>>>
    /\ project.imports # <<>>

====
